---- MODULE Spec2Model ----
(***************************************************************************)
(* Model of the block identifier validator of flow-rosetta                 *)
(* (package validator: Validator.Block and Validator.CompleteBlockID)      *)
(* running against the chain-access collaborator (accessAPI).              *)
(*                                                                         *)
(* A hash string is a sequence of one-character strings.  A block          *)
(* identifier (flow.Identifier) is a sequence of HashLen nibbles.  One     *)
(* step of the model is one call to the collaborator together with the    *)
(* local code that follows it up to the next call or the return, so the    *)
(* chain head can advance between the calls of one resolution.             *)
(***************************************************************************)
EXTENDS Integers, Sequences, FiniteSets, TLC

VARIABLES
    chainFirst,   \* first height the chain-access collaborator knows
    head,         \* height of the latest (sealed) block of the collaborator
    pc,           \* position of the running call
    op,           \* the operation that is running or has returned
    arg,          \* the identifier.Block the caller passed
    rosBlockID,   \* the callee's copy of it (Index is filled in at line 100)
    last,         \* height of the header the head fetch returned, or Nil
    calls,        \* number of calls made to each collaborator operation
    collabErr,    \* error a collaborator call returned to this call, or "nil"
    ret,          \* what the call returned
    prevLatest    \* observed head and result of the previous latest-block call

vars == <<chainFirst, head, pc, op, arg, rosBlockID, last, calls, collabErr,
          ret, prevLatest>>

\* the script generator (package scripts) and the calls made to it
VARIABLES
    g,            \* the Generator that NewGenerator returned
    gcall,        \* the method called last and its arguments
    gret,         \* what it returned
    gprev         \* the call before it and what that returned

gvars == <<g, gcall, gret, gprev>>

\* the pure conversions of package retriever
VARIABLES
    cin,          \* the argument of the conversion
    cout          \* what the conversion returned for it

cvars == <<cin, cout>>

allvars == <<vars, gvars, cvars>>

\* values of the variables of a component that a specification does not run
Unused == "unused"

GeneratorUnused == g = Unused /\ gcall = Unused /\ gret = Unused /\ gprev = Unused

ConverterUnused == cin = Unused /\ cout = Unused

ValidatorUnused ==
    /\ chainFirst = 0 /\ head = 0 /\ pc = Unused /\ op = Unused /\ arg = Unused
    /\ rosBlockID = Unused /\ last = 0 /\ calls = Unused /\ collabErr = Unused
    /\ ret = Unused /\ prevLatest = Unused

----------------------------------------------------------------------------
(* Bounds *)

\* heights of the chain are 0..MaxHeight
MaxHeight == 3
\* the chain's first known height is chosen in 0..MaxFirst
MaxFirst == 1
\* number of hex digits of an identifier (64 in flow, scaled down)
HashLen == 2

----------------------------------------------------------------------------
(* Values *)

Nil == "nil"

\* the value of: var first uint64 = 0
first == 0

\* characters a hash string is made of: hex digits in both cases, and "z"
Chars == {"0", "1", "a", "A", "z"}

\* strings of exactly n characters
RECURSIVE StringsOfLen(_)
StringsOfLen(n) ==
    IF n = 0 THEN {<<>>}
    ELSE {Append(s, c) : s \in StringsOfLen(n - 1), c \in Chars}

\* the hash strings a caller may send: the empty string up to HashLen
HashStrings == UNION {StringsOfLen(n) : n \in 0..HashLen}

\* the nil *uint64 of identifier.Block.Index
NoIndex == -1

\* the indices a caller may send: absent, or a uint64
Indices == {NoIndex} \cup (0..(MaxHeight + 1))

BlockIDs == [Index : Indices, Hash : HashStrings]

\* flow.ZeroID
ZeroID == [i \in 1..HashLen |-> 0]

\* description texts of package validator and the contexts of fmt.Errorf
blockInvalid == "blockInvalid"
blockTooLow == "blockTooLow"
blockTooHigh == "blockTooHigh"
blockMismatch == "blockMismatch"
blockNotFull == "blockNotFull"

----------------------------------------------------------------------------
(* Hex encoding (encoding/hex as used by flow.Identifier) *)

IsHexChar(c) == c \in {"0", "1", "a", "A"}

\* fromHexChar: both cases of a letter have the same value
FromHexChar(c) ==
    CASE c = "0" -> 0
      [] c = "1" -> 1
      [] c = "a" -> 10
      [] c = "A" -> 10
      [] OTHER -> 0

\* hex.EncodeToString writes lower-case digits
ToHexChar(n) ==
    CASE n = 0 -> "0"
      [] n = 1 -> "1"
      [] n = 10 -> "a"
      [] OTHER -> "0"

\* a parser that checks the digits but not the length
HexStringToIdentifierAnyLen(s) ==
    IF \A i \in 1..Len(s) : IsHexChar(s[i])
    THEN [err |-> Nil,
          id |-> [i \in 1..HashLen |-> IF i <= Len(s) THEN FromHexChar(s[i]) ELSE 0]]
    ELSE [err |-> "malformed input", id |-> ZeroID]

(* flow.HexStringToIdentifier: fails unless the string is HashLen hex digits *)
HexStringToIdentifier(s) ==
    IF Len(s) = HashLen /\ \A i \in 1..Len(s) : IsHexChar(s[i])
    THEN [err |-> Nil, id |-> [i \in 1..HashLen |-> FromHexChar(s[i])]]
    ELSE [err |-> "malformed input", id |-> ZeroID]

(* sdk.HexToID: decodes, drops the error, copies into a zeroed identifier *)
HexToID(s) ==
    [i \in 1..HashLen |->
        IF i <= Len(s) /\ \A j \in 1..i : IsHexChar(s[j])
        THEN FromHexChar(s[i]) ELSE 0]

(* Identifier.Hex *)
Hex(id) == [i \in 1..HashLen |-> ToHexChar(id[i])]

----------------------------------------------------------------------------
(* The chain-access collaborator *)

RECURSIVE Pow3(_)
Pow3(n) == IF n = 0 THEN 1 ELSE 3 * Pow3(n - 1)

Nibble(d) == IF d = 2 THEN 10 ELSE d

\* the identifier of the canonical block at height h: an injection that
\* never yields ZeroID
CanonicalID(h) ==
    [i \in 1..HashLen |-> Nibble(((h + 1) \div Pow3(HashLen - i)) % 3)]

Header(h) == [Height |-> h, ID |-> CanonicalID(h)]

Known(h) == h \in chainFirst..head

\* the heights whose canonical block has this identifier
HeightsOf(id) == {h \in chainFirst..head : CanonicalID(h) = id}

\* errors of the collaborator: the node cannot be reached, or has no such block
Unavailable == "unavailable"
NotFound == "not found"

----------------------------------------------------------------------------
(* Return values of Block and CompleteBlockID *)

\* return header.Height, identifier, nil
Success(height, id) ==
    [kind |-> "nil", text |-> "", fields |-> {}, height |-> height, id |-> id]

\* return 0, flow.ZeroID, failure.InvalidBlock{Description: ...}
InvalidBlock(text, fields) ==
    [kind |-> "InvalidBlock", text |-> text, fields |-> fields,
     height |-> 0, id |-> ZeroID]

\* return 0, flow.ZeroID, failure.UnknownBlock{Index, Hash, Description}
UnknownBlock(index, hash, text, fields) ==
    [kind |-> "UnknownBlock", text |-> text,
     fields |-> {<<"Index", index>>, <<"Hash", hash>>} \cup fields,
     height |-> 0, id |-> ZeroID]

\* return 0, flow.ZeroID, fmt.Errorf(context + ": %w", err)
Errorf(context, err) ==
    [kind |-> "error", text |-> context, fields |-> {<<"%w", err>>},
     height |-> 0, id |-> ZeroID]

\* return failure.IncompleteBlock{Description: ...}
IncompleteBlock(text) ==
    [kind |-> "IncompleteBlock", text |-> text, fields |-> {},
     height |-> 0, id |-> ZeroID]

\* return nil (CompleteBlockID)
NoError == [kind |-> "nil", text |-> "", fields |-> {}, height |-> 0, id |-> ZeroID]

NoCalls == [latest |-> 0, byID |-> 0, byHeight |-> 0]

NoBlockID == [Index |-> NoIndex, Hash |-> <<>>]

NoPrev == [seen |-> FALSE, head |-> 0, height |-> 0, id |-> ZeroID]

NoReturn == [kind |-> "none", text |-> "", fields |-> {}, height |-> 0, id |-> ZeroID]

----------------------------------------------------------------------------
(* Validator.Block *)

\* rosBlockID.Index == nil && rosBlockID.Hash == ""
IsLatest(id) == id.Index = NoIndex /\ id.Hash = <<>>

\* *rosBlockID.Index < first
TooLow(index) == index < first

\* a range check that lets every index pass
TooHighNever(index, lastHeight) == FALSE

\* a range check that also rejects the head itself
TooHighOffByOne(index, lastHeight) == index >= lastHeight

\* *rosBlockID.Index > last.Height
TooHigh(index, lastHeight) == index > lastHeight

\* a failure that returns the head height next to the error
TooHighFailureHeight(id, lastHeight) ==
    [kind |-> "UnknownBlock", text |-> blockTooHigh,
     fields |-> {<<"Index", id.Index>>, <<"Hash", id.Hash>>,
                 <<"last_index", lastHeight>>},
     height |-> lastHeight, id |-> ZeroID]

\* a failure that reports the offending index as the boundary
TooHighFailureIndex(id, lastHeight) ==
    UnknownBlock(id.Index, id.Hash, blockTooHigh, {<<"last_index", id.Index>>})

\* failure.UnknownBlock{Index, Hash, blockTooHigh, last_index}
TooHighFailure(id, lastHeight) ==
    UnknownBlock(id.Index, id.Hash, blockTooHigh, {<<"last_index", lastHeight>>})

\* a latest-block return that drops the identifier
LatestResultZeroID(header) == Success(header.Height, ZeroID)

\* return last.Height, flow.Identifier(last.ID), nil
LatestResult(header) == Success(header.Height, header.ID)

\* a comparison that is left out
MismatchNever(hash, header) == FALSE

\* a comparison that is skipped whenever a hash was given
MismatchEmptyOnly(hash, header) == hash = <<>> /\ hash # Hex(header.ID)

\* rosBlockID.Hash != "" && rosBlockID.Hash != header.ID.Hex()
Mismatch(hash, header) == hash # <<>> /\ hash # Hex(header.ID)

Returns(r) ==
    /\ pc' = "done"
    /\ ret' = r

(* The call and its local code up to the first collaborator call *)
Block(id) ==
    /\ pc = "idle"
    /\ op' = "Block"
    /\ arg' = id
    /\ rosBlockID' = id
    /\ last' = NoIndex
    /\ calls' = NoCalls
    /\ collabErr' = Nil
    /\ IF IsLatest(id)
       THEN pc' = "latest" /\ ret' = NoReturn
       ELSE IF id.Hash # <<>> /\ HexStringToIdentifier(id.Hash).err # Nil
       THEN Returns(InvalidBlock(blockInvalid, {<<"block_hash", id.Hash>>}))
       ELSE IF id.Index # NoIndex
       THEN IF TooLow(id.Index)
            THEN Returns(InvalidBlock(blockTooLow,
                     {<<"block_index", id.Index>>, <<"first_index", first>>}))
            ELSE pc' = "last" /\ ret' = NoReturn
       ELSE pc' = "byID" /\ ret' = NoReturn
    /\ UNCHANGED <<chainFirst, head, prevLatest>>

(* line 36: the head fetch of the latest-block case, and lines 38-45 *)
GetLatestBlockHeaderLatest(fails) ==
    /\ pc = "latest"
    /\ calls' = [calls EXCEPT !.latest = @ + 1]
    /\ IF fails
       THEN /\ collabErr' = Unavailable
            /\ last' = last
            /\ Returns(Errorf("could not retrieve last", Unavailable))
       ELSE /\ collabErr' = collabErr
            /\ last' = Header(head).Height
            /\ Returns(LatestResult(Header(head)))
    /\ UNCHANGED <<chainFirst, head, op, arg, rosBlockID, prevLatest>>

(* line 76: the head fetch of the range check, and lines 77-88 *)
GetLatestBlockHeaderRange(fails) ==
    /\ pc = "last"
    /\ calls' = [calls EXCEPT !.latest = @ + 1]
    /\ IF fails
       THEN /\ collabErr' = Unavailable
            /\ last' = last
            /\ Returns(Errorf("could not get last", Unavailable))
       ELSE /\ collabErr' = collabErr
            /\ last' = Header(head).Height
            /\ IF TooHigh(rosBlockID.Index, Header(head).Height)
               THEN Returns(TooHighFailure(rosBlockID, Header(head).Height))
               ELSE pc' = "byHeight" /\ ret' = ret
    /\ UNCHANGED <<chainFirst, head, op, arg, rosBlockID, prevLatest>>

(* line 95: the lookup by identifier, and lines 97-100 *)
GetBlockHeaderByID(fails) ==
    /\ pc = "byID"
    /\ calls' = [calls EXCEPT !.byID = @ + 1]
    /\ LET blockID == HexToID(rosBlockID.Hash)
           err == IF fails THEN Unavailable
                  ELSE IF HeightsOf(blockID) = {} THEN NotFound ELSE Nil
       IN  IF err # Nil
           THEN /\ collabErr' = err
                /\ rosBlockID' = rosBlockID
                /\ Returns(Errorf("could not get height for block", err))
           ELSE /\ collabErr' = collabErr
                /\ \E h \in HeightsOf(blockID) :
                       rosBlockID' = [rosBlockID EXCEPT !.Index = Header(h).Height]
                /\ pc' = "byHeight"
                /\ ret' = ret
    /\ UNCHANGED <<chainFirst, head, op, arg, last, prevLatest>>

\* a lookup by height that is tried again when the node cannot be reached
GetBlockHeaderByHeightRetry(fails) ==
    /\ pc = "byHeight"
    /\ calls' = [calls EXCEPT !.byHeight = @ + 1]
    /\ LET err == IF fails THEN Unavailable
                  ELSE IF ~Known(rosBlockID.Index) THEN NotFound ELSE Nil
           header == Header(rosBlockID.Index)
       IN  IF err = Unavailable /\ calls.byHeight = 0
           THEN collabErr' = collabErr /\ pc' = pc /\ ret' = ret
           ELSE IF err # Nil
           THEN /\ collabErr' = err
                /\ Returns(Errorf("could not get header", err))
           ELSE /\ collabErr' = collabErr
                /\ IF Mismatch(rosBlockID.Hash, header)
                   THEN Returns(InvalidBlock(blockMismatch,
                            {<<"block_index", rosBlockID.Index>>,
                             <<"block_hash", rosBlockID.Hash>>,
                             <<"want_hash", Hex(header.ID)>>}))
                   ELSE Returns(Success(header.Height, header.ID))
    /\ UNCHANGED <<chainFirst, head, op, arg, rosBlockID, last, prevLatest>>

(* line 104: the lookup by height, and lines 106-124 *)
GetBlockHeaderByHeight(fails) ==
    /\ pc = "byHeight"
    /\ calls' = [calls EXCEPT !.byHeight = @ + 1]
    /\ LET err == IF fails THEN Unavailable
                  ELSE IF ~Known(rosBlockID.Index) THEN NotFound ELSE Nil
           header == Header(rosBlockID.Index)
           identifier == HexStringToIdentifier(Hex(header.ID))
       IN  IF err # Nil
           THEN /\ collabErr' = err
                /\ Returns(Errorf("could not get header", err))
           ELSE /\ collabErr' = collabErr
                /\ IF Mismatch(rosBlockID.Hash, header)
                   THEN Returns(InvalidBlock(blockMismatch,
                            {<<"block_index", rosBlockID.Index>>,
                             <<"block_hash", rosBlockID.Hash>>,
                             <<"want_hash", Hex(header.ID)>>}))
                   ELSE IF identifier.err # Nil
                   THEN Returns(Errorf("could not convert to identifier",
                                       identifier.err))
                   ELSE Returns(Success(header.Height, identifier.id))
    /\ UNCHANGED <<chainFirst, head, op, arg, rosBlockID, last, prevLatest>>

\* a completeness check that accepts an identifier with one field
IncompleteBoth(id) == id.Index = NoIndex /\ id.Hash = <<>>

\* rosBlockID.Index == nil || rosBlockID.Hash == ""
Incomplete(id) == id.Index = NoIndex \/ id.Hash = <<>>

(* Validator.CompleteBlockID *)
CompleteBlockID(id) ==
    /\ pc = "idle"
    /\ op' = "CompleteBlockID"
    /\ arg' = id
    /\ rosBlockID' = id
    /\ last' = NoIndex
    /\ calls' = NoCalls
    /\ collabErr' = Nil
    /\ IF Incomplete(id)
       THEN Returns(IncompleteBlock(blockNotFull))
       ELSE Returns(NoError)
    /\ UNCHANGED <<chainFirst, head, prevLatest>>

(* The caller takes the result; the call's locals are gone and the next *)
(* call can start *)
Return ==
    /\ pc = "done"
    /\ pc' = "idle"
    /\ prevLatest' =
          IF op = "Block" /\ IsLatest(arg) /\ ret.kind = "nil"
          THEN [seen |-> TRUE, head |-> last, height |-> ret.height, id |-> ret.id]
          ELSE prevLatest
    /\ op' = "none"
    /\ arg' = NoBlockID
    /\ rosBlockID' = NoBlockID
    /\ last' = NoIndex
    /\ calls' = NoCalls
    /\ collabErr' = Nil
    /\ ret' = NoReturn
    /\ UNCHANGED <<chainFirst, head>>

(* The chain grows by one block *)
AdvanceHead ==
    /\ head < MaxHeight
    /\ head' = head + 1
    /\ UNCHANGED <<chainFirst, pc, op, arg, rosBlockID, last, calls,
                   collabErr, ret, prevLatest>>

Init ==
    /\ chainFirst \in 0..MaxFirst
    /\ head = chainFirst
    /\ pc = "idle"
    /\ op = "none"
    /\ arg = NoBlockID
    /\ rosBlockID = NoBlockID
    /\ last = NoIndex
    /\ calls = NoCalls
    /\ collabErr = Nil
    /\ ret = NoReturn
    /\ prevLatest = NoPrev
    /\ GeneratorUnused
    /\ ConverterUnused

Next ==
    \/ \E id \in BlockIDs : Block(id) /\ UNCHANGED <<gvars, cvars>>
    \/ \E fails \in BOOLEAN :
          GetLatestBlockHeaderLatest(fails) /\ UNCHANGED <<gvars, cvars>>
    \/ \E fails \in BOOLEAN :
          GetLatestBlockHeaderRange(fails) /\ UNCHANGED <<gvars, cvars>>
    \/ \E fails \in BOOLEAN :
          GetBlockHeaderByID(fails) /\ UNCHANGED <<gvars, cvars>>
    \/ \E fails \in BOOLEAN :
          GetBlockHeaderByHeight(fails) /\ UNCHANGED <<gvars, cvars>>
    \/ \E id \in BlockIDs : CompleteBlockID(id) /\ UNCHANGED <<gvars, cvars>>
    \/ Return /\ UNCHANGED <<gvars, cvars>>
    \/ AdvanceHead /\ UNCHANGED <<gvars, cvars>>

Spec == Init /\ [][Next]_allvars

----------------------------------------------------------------------------
(* Properties of Validator.Block and Validator.CompleteBlockID *)

\* a string of exactly HashLen hex digits, of either case
IsHexString(s) ==
    /\ Len(s) = HashLen
    /\ \A i \in 1..Len(s) : s[i] \in {"0", "1", "a", "A"}

\* the identifier a hex string denotes
Denotes(s) ==
    [i \in 1..HashLen |-> IF s[i] = "1" THEN 1 ELSE IF s[i] = "0" THEN 0 ELSE 10]

\* the hash string under which the collaborator reports the block at height h
CanonicalHash(h) ==
    [i \in 1..HashLen |->
        LET d == ((h + 1) \div Pow3(HashLen - i)) % 3
        IN  IF d = 0 THEN "0" ELSE IF d = 1 THEN "1" ELSE "a"]

BlockDone == pc = "done" /\ op = "Block"

IndexOnly == arg.Index # NoIndex /\ arg.Hash = <<>>

HashOnly == arg.Index = NoIndex /\ arg.Hash # <<>>

\* C1: a Block call with no index and an empty hash makes exactly one head
\* fetch and no other collaborator call; when the fetch answers, the call
\* returns the height and identifier of the head header it fetched, and it
\* returns the same pair as the previous such call that saw the same head.
C1_LatestIsHead ==
    (BlockDone /\ arg.Index = NoIndex /\ arg.Hash = <<>>) =>
        /\ calls = [latest |-> 1, byID |-> 0, byHeight |-> 0]
        /\ collabErr = Nil =>
              /\ last \in chainFirst..head
              /\ ret.kind = "nil"
              /\ ret.height = last
              /\ Hex(ret.id) = CanonicalHash(last)
              /\ (prevLatest.seen /\ prevLatest.head = last) =>
                    (ret.height = prevLatest.height /\ ret.id = prevLatest.id)

C1_Witness ==
    /\ BlockDone /\ arg.Index = NoIndex /\ arg.Hash = <<>>
    /\ collabErr = Nil
    /\ ret.kind = "nil" /\ ret.height > 0
    /\ prevLatest.seen /\ prevLatest.head = last

\* C2: a Block call with only an index h, chainFirst <= h <= the head it
\* fetched, whose collaborator calls all answer, returns h and the canonical
\* identifier of height h.
C2_IndexOnlyCanonical ==
    (BlockDone /\ IndexOnly /\ collabErr = Nil /\ last # NoIndex
       /\ chainFirst <= arg.Index /\ arg.Index <= last) =>
        /\ ret.kind = "nil"
        /\ ret.height = arg.Index
        /\ ret.id = CanonicalID(arg.Index)
        /\ Hex(ret.id) = CanonicalHash(arg.Index)

C2_Witness ==
    /\ BlockDone /\ IndexOnly /\ collabErr = Nil
    /\ chainFirst < arg.Index /\ arg.Index = last
    /\ ret.kind = "nil" /\ ret.height = arg.Index

\* C3: a Block call with an index above the head height it fetched, with no
\* hash or a well-formed one, fails with UnknownBlock (too high) carrying the
\* index, the hash and the fetched head height as last_index.
C3_AboveHeadUnknown ==
    (BlockDone /\ arg.Index # NoIndex /\ (arg.Hash = <<>> \/ IsHexString(arg.Hash))
       /\ collabErr = Nil /\ last # NoIndex /\ arg.Index > last) =>
        /\ ret.kind = "UnknownBlock"
        /\ ret.text = blockTooHigh
        /\ ret.fields = {<<"Index", arg.Index>>, <<"Hash", arg.Hash>>,
                         <<"last_index", last>>}
        /\ last \in chainFirst..head

C3_Witness ==
    /\ BlockDone /\ arg.Index # NoIndex /\ IsHexString(arg.Hash)
    /\ collabErr = Nil /\ last # NoIndex /\ arg.Index > last + 1
    /\ ret.kind = "UnknownBlock"

\* C4: a Block call with an index in [chainFirst, fetched head] and a
\* well-formed hash, whose collaborator calls all answer, fails with
\* InvalidBlock (mismatch) carrying the index, the given hash and the
\* canonical hash when the given hash string differs from the canonical hash
\* string of that height, and returns (index, that hash) when it is the same.
C4_HashMustMatchHeight ==
    (BlockDone /\ arg.Index # NoIndex /\ IsHexString(arg.Hash)
       /\ collabErr = Nil /\ last # NoIndex
       /\ chainFirst <= arg.Index /\ arg.Index <= last) =>
        IF arg.Hash # CanonicalHash(arg.Index)
        THEN /\ ret.kind = "InvalidBlock"
             /\ ret.text = blockMismatch
             /\ ret.fields = {<<"block_index", arg.Index>>,
                              <<"block_hash", arg.Hash>>,
                              <<"want_hash", CanonicalHash(arg.Index)>>}
        ELSE /\ ret.kind = "nil"
             /\ ret.height = arg.Index
             /\ ret.id = Denotes(arg.Hash)

C4_Witness ==
    /\ BlockDone /\ arg.Index # NoIndex /\ IsHexString(arg.Hash)
    /\ collabErr = Nil /\ last # NoIndex
    /\ chainFirst <= arg.Index /\ arg.Index <= last
    /\ arg.Hash # CanonicalHash(arg.Index)
    /\ \E h \in chainFirst..head : arg.Hash = CanonicalHash(h)
    /\ ret.kind = "InvalidBlock"

C6_BelowFirstInvalid ==
    (BlockDone /\ arg.Index # NoIndex /\ (arg.Hash = <<>> \/ IsHexString(arg.Hash))
       /\ collabErr # Unavailable /\ arg.Index < chainFirst) =>
        /\ ret.kind = "InvalidBlock"
        /\ ret.text = blockTooLow
        /\ ret.fields = {<<"block_index", arg.Index>>, <<"first_index", chainFirst>>}

\* C7: a Block call with only a well-formed hash of a block the chain knows
\* at height H, whose collaborator calls all answer, makes one lookup by
\* identifier and returns H and the canonical identifier of H, which is the
\* identifier the given hash denotes.
C7_HashOnlyResolves ==
    (BlockDone /\ HashOnly /\ IsHexString(arg.Hash) /\ collabErr = Nil
       /\ \E h \in chainFirst..head : CanonicalID(h) = Denotes(arg.Hash)) =>
        /\ calls.byID = 1
        /\ ret.kind = "nil"
        /\ ret.height \in chainFirst..head
        /\ ret.id = CanonicalID(ret.height)
        /\ ret.id = Denotes(arg.Hash)

\* C8: CompleteBlockID returns IncompleteBlock exactly when the index is
\* absent or the hash is empty, returns nil when both are present (index 0
\* included), and makes no collaborator call.
C8_CompleteBlockID ==
    (pc = "done" /\ op = "CompleteBlockID") =>
        /\ calls = NoCalls
        /\ IF arg.Index = NoIndex \/ arg.Hash = <<>>
           THEN ret.kind = "IncompleteBlock" /\ ret.text = blockNotFull
           ELSE ret.kind = "nil"

C8_Witness ==
    /\ pc = "done" /\ op = "CompleteBlockID"
    /\ arg.Index = NoIndex /\ arg.Hash # <<>>
    /\ ret.kind = "IncompleteBlock"

\* C9: a Block call with only a well-formed hash of a block the chain does
\* not know (the node reachable) fails with the structured kind UnknownBlock.
C9_UnknownHashUnknownBlock ==
    (BlockDone /\ HashOnly /\ IsHexString(arg.Hash) /\ collabErr # Unavailable
       /\ ~\E h \in chainFirst..head : CanonicalID(h) = Denotes(arg.Hash)) =>
        ret.kind = "UnknownBlock"

\* C10: within one Block call each collaborator operation is called at most
\* once, and once a collaborator call has returned an error the call has
\* returned (so it makes no further collaborator call) an error that wraps
\* the collaborator's error with the context of the operation that failed.
C10_NoRetryNoSwallow ==
    /\ calls.latest <= 1 /\ calls.byID <= 1 /\ calls.byHeight <= 1
    /\ collabErr # Nil =>
          /\ pc = "done"
          /\ ret.kind = "error"
          /\ ret.fields = {<<"%w", collabErr>>}
          /\ ret.text =
               IF calls.byHeight = 1 THEN "could not get header"
               ELSE IF calls.byID = 1 THEN "could not get height for block"
               ELSE IF arg.Index = NoIndex THEN "could not retrieve last"
               ELSE "could not get last"

C10_Witness ==
    /\ BlockDone /\ collabErr = Unavailable
    /\ calls = [latest |-> 1, byID |-> 0, byHeight |-> 1]
    /\ ret.kind = "error" /\ ret.text = "could not get header"

\* C11: every height a Block call returns was checked against a head fetched
\* within that call: a call given only a hash, which derives its height by
\* the lookup by identifier, has fetched the head and the height it returns
\* is within the head it fetched.
C11_DerivedHeightChecked ==
    (BlockDone /\ HashOnly /\ ret.kind = "nil") =>
        /\ calls.latest = 1
        /\ last # NoIndex
        /\ ret.height <= last

\* C22: the lookup by height is issued only when the height is known: in a
\* call given an index, after the one head fetch whose range check the index
\* passed, with that index; in a call given only a hash, after the one lookup
\* by identifier, with the height of the block that lookup found.
C22_ByHeightAfterHeightKnown ==
    [][(calls'.byHeight = calls.byHeight + 1) =>
          /\ pc = "byHeight"
          /\ rosBlockID.Index # NoIndex
          /\ IF arg.Index # NoIndex
             THEN /\ calls.latest = 1
                  /\ calls.byID = 0
                  /\ last # NoIndex
                  /\ arg.Index <= last
                  /\ rosBlockID.Index = arg.Index
             ELSE /\ calls.byID = 1
                  /\ calls.latest = 0
                  /\ Known(rosBlockID.Index)
                  /\ CanonicalID(rosBlockID.Index) = Denotes(arg.Hash)]_allvars

C22_Witness ==
    /\ BlockDone /\ HashOnly
    /\ calls = [latest |-> 0, byID |-> 1, byHeight |-> 1]
    /\ ret.kind = "nil"
    /\ ret.height > chainFirst

\* C25: the pair a successful Block call returns is consistent: the
\* identifier is the canonical one of the returned height, which the chain
\* knows; the height is the index when the caller gave one (the fetched
\* head's height in the latest-block case), and the identifier is the one
\* the caller's hash denotes when the caller gave a hash.
C25_ConsistentPair ==
    (BlockDone /\ ret.kind = "nil") =>
        /\ ret.height \in chainFirst..head
        /\ ret.id = CanonicalID(ret.height)
        /\ Hex(ret.id) = CanonicalHash(ret.height)
        /\ arg.Index # NoIndex => ret.height = arg.Index
        /\ arg.Hash # <<>> => (IsHexString(arg.Hash) /\ Denotes(arg.Hash) = ret.id)
        /\ IsLatest(arg) => ret.height = last

C25_Witness ==
    /\ BlockDone /\ ret.kind = "nil"
    /\ arg.Index # NoIndex /\ arg.Index > chainFirst
    /\ arg.Hash = CanonicalHash(arg.Index)
    /\ head > arg.Index

\* C30: a Block call that returns an error (InvalidBlock, UnknownBlock or a
\* wrapped collaborator error) returns height 0 and the zero identifier with
\* it; a height or identifier that is not zero comes with no error.
C30_ZeroOnFailure ==
    BlockDone =>
        /\ ret.kind \in {"nil", "InvalidBlock", "UnknownBlock", "error"}
        /\ ret.kind # "nil" => (ret.height = 0 /\ ret.id = ZeroID)
        /\ (ret.height # 0 \/ ret.id # ZeroID) => ret.kind = "nil"

C30_Witness ==
    /\ BlockDone
    /\ ret.kind = "UnknownBlock"
    /\ last > 0
    /\ IsHexString(arg.Hash)
    /\ ret.height = 0 /\ ret.id = ZeroID

----------------------------------------------------------------------------
(* A caller that resolves an identifier and then resolves a related one:   *)
(* the same identifier again, one whose hash is another spelling of the    *)
(* same flow.Identifier, or the identifier built from the result.          *)
(* prevLatest holds the first call and what it returned.                   *)

\* hex.EncodeToString in upper case
HexUpper(id) == [i \in 1..HashLen |-> IF id[i] = 10 THEN "A" ELSE ToHexChar(id[i])]

\* a conversion that writes the hash in upper case
rosettaBlockIDUpper(height, blockID) == [Index |-> height, Hash |-> HexUpper(blockID)]

(* rosettaBlockID: Identifier.String is the lower-case hex encoding *)
rosettaBlockID(height, blockID) == [Index |-> height, Hash |-> Hex(blockID)]

NoFirstCall ==
    [seen |-> FALSE, arg |-> NoBlockID, ret |-> NoReturn, last |-> NoIndex,
     collabErr |-> Nil, head |-> 0]

\* the identifiers of the second call
Related(prev) ==
    {prev.arg}
    \cup {[Index |-> prev.arg.Index, Hash |-> h] :
            h \in {s \in HashStrings :
                      /\ HexStringToIdentifier(prev.arg.Hash).err = Nil
                      /\ HexStringToIdentifier(s).err = Nil
                      /\ HexStringToIdentifier(s).id =
                            HexStringToIdentifier(prev.arg.Hash).id}}
    \cup {rosettaBlockID(prev.ret.height, prev.ret.id) : k \in {prev.ret.kind} \cap {"nil"}}

\* the first call has returned; the caller keeps what it passed and received
Remember ==
    /\ pc = "done"
    /\ op = "Block"
    /\ ~prevLatest.seen
    /\ pc' = "idle"
    /\ prevLatest' = [seen |-> TRUE, arg |-> arg, ret |-> ret, last |-> last,
                      collabErr |-> collabErr, head |-> head]
    /\ op' = "none"
    /\ arg' = NoBlockID
    /\ rosBlockID' = NoBlockID
    /\ last' = NoIndex
    /\ calls' = NoCalls
    /\ collabErr' = Nil
    /\ ret' = NoReturn
    /\ UNCHANGED <<chainFirst, head>>

\* the second call has returned; the caller starts over
Forget ==
    /\ pc = "done"
    /\ prevLatest.seen
    /\ pc' = "idle"
    /\ prevLatest' = NoFirstCall
    /\ op' = "none"
    /\ arg' = NoBlockID
    /\ rosBlockID' = NoBlockID
    /\ last' = NoIndex
    /\ calls' = NoCalls
    /\ collabErr' = Nil
    /\ ret' = NoReturn
    /\ UNCHANGED <<chainFirst, head>>

InitAgain ==
    /\ chainFirst \in 0..MaxFirst
    /\ head = chainFirst
    /\ pc = "idle"
    /\ op = "none"
    /\ arg = NoBlockID
    /\ rosBlockID = NoBlockID
    /\ last = NoIndex
    /\ calls = NoCalls
    /\ collabErr = Nil
    /\ ret = NoReturn
    /\ prevLatest = NoFirstCall
    /\ GeneratorUnused
    /\ ConverterUnused

NextAgain ==
    \/ /\ ~prevLatest.seen /\ pc = "idle"
       /\ \E id \in BlockIDs : Block(id)
       /\ UNCHANGED <<gvars, cvars>>
    \/ /\ prevLatest.seen /\ pc = "idle"
       /\ \E id \in Related(prevLatest) : Block(id)
       /\ UNCHANGED <<gvars, cvars>>
    \/ /\ prevLatest.seen
       /\ prevLatest.ret.kind = "nil"
       /\ CompleteBlockID(rosettaBlockID(prevLatest.ret.height, prevLatest.ret.id))
       /\ UNCHANGED <<gvars, cvars>>
    \/ \E fails \in BOOLEAN :
          GetLatestBlockHeaderLatest(fails) /\ UNCHANGED <<gvars, cvars>>
    \/ \E fails \in BOOLEAN :
          GetLatestBlockHeaderRange(fails) /\ UNCHANGED <<gvars, cvars>>
    \/ \E fails \in BOOLEAN :
          GetBlockHeaderByID(fails) /\ UNCHANGED <<gvars, cvars>>
    \/ \E fails \in BOOLEAN :
          GetBlockHeaderByHeight(fails) /\ UNCHANGED <<gvars, cvars>>
    \/ Remember /\ UNCHANGED <<gvars, cvars>>
    \/ Forget /\ UNCHANGED <<gvars, cvars>>
    \/ AdvanceHead /\ UNCHANGED <<gvars, cvars>>

SpecAgain == InitAgain /\ [][NextAgain]_allvars

(* Properties of two calls in a row *)

\* the second call has returned
AgainDone == pc = "done" /\ prevLatest.seen

\* C24: as the head advances, a rejection with UnknownBlock is temporary and
\* one with InvalidBlock is permanent: an index-only identifier that was
\* rejected with UnknownBlock resolves to its index and the canonical
\* identifier once the fetched head has reached the index, and an identifier
\* that was rejected with InvalidBlock is rejected with InvalidBlock, for
\* the same reason, when it is resolved again later (the node reachable).
C24_RejectionPermanence ==
    (AgainDone /\ op = "Block" /\ arg = prevLatest.arg /\ collabErr # Unavailable) =>
        /\ prevLatest.ret.kind = "InvalidBlock" =>
              /\ ret.kind = "InvalidBlock"
              /\ ret.text = prevLatest.ret.text
        /\ (prevLatest.ret.kind = "UnknownBlock" /\ IndexOnly
              /\ last # NoIndex /\ last >= arg.Index) =>
              /\ ret.kind = "nil"
              /\ ret.height = arg.Index
              /\ ret.id = CanonicalID(arg.Index)

\* an index that was above the head is resolved after the head reached it
C24_Witness ==
    /\ AgainDone /\ op = "Block" /\ arg = prevLatest.arg /\ IndexOnly
    /\ prevLatest.ret.kind = "UnknownBlock"
    /\ prevLatest.last < arg.Index
    /\ last = arg.Index
    /\ ret.kind = "nil"

\* a mismatch is reported again after the head advanced
C24_WitnessInvalid ==
    /\ AgainDone /\ op = "Block" /\ arg = prevLatest.arg
    /\ prevLatest.ret.kind = "InvalidBlock"
    /\ prevLatest.ret.text = blockMismatch
    /\ head > prevLatest.head
    /\ ret.kind = "InvalidBlock"

\* C26: two well-formed hash strings that denote the same identifier, given
\* with the same index on the same chain state (the same fetched head, no
\* block added since the first call returned, no collaborator error), are
\* both accepted with the same result or both rejected with the same kind.
C26_AcceptanceByIdentifier ==
    (AgainDone /\ op = "Block"
       /\ IsHexString(arg.Hash) /\ IsHexString(prevLatest.arg.Hash)
       /\ Denotes(arg.Hash) = Denotes(prevLatest.arg.Hash)
       /\ arg.Index = prevLatest.arg.Index
       /\ collabErr = Nil /\ prevLatest.collabErr = Nil
       /\ prevLatest.head = head /\ prevLatest.last = last) =>
        /\ ret.kind = prevLatest.ret.kind
        /\ ret.kind = "nil" => (ret.height = prevLatest.ret.height
                                  /\ ret.id = prevLatest.ret.id)

\* C27: for every height h from the chain's first height to the fetched
\* head, with canonical identifier c, the identifier rosettaBlockID(h, c)
\* passes CompleteBlockID and Block returns (h, c) for it; so the identifier
\* built from the result of a successful Block call passes CompleteBlockID
\* and resolves to that same result (the node reachable).
C27_ConversionRoundTrip ==
    /\ (pc = "done" /\ op = "Block" /\ collabErr # Unavailable
          /\ \E h \in chainFirst..head :
                /\ arg = [Index |-> h, Hash |-> CanonicalHash(h)]
                /\ h <= last) =>
           /\ ret.kind = "nil"
           /\ ret.height = arg.Index
           /\ ret.id = CanonicalID(arg.Index)
    /\ (AgainDone /\ prevLatest.ret.kind = "nil") =>
           /\ rosettaBlockID(prevLatest.ret.height, prevLatest.ret.id) =
                 [Index |-> prevLatest.ret.height,
                  Hash |-> CanonicalHash(prevLatest.ret.height)]
           /\ (op = "CompleteBlockID") => ret.kind = "nil"
           /\ (op = "Block" /\ collabErr # Unavailable
                 /\ arg.Index = prevLatest.ret.height
                 /\ arg.Hash = CanonicalHash(prevLatest.ret.height)) =>
                 /\ ret.kind = "nil"
                 /\ ret.height = prevLatest.ret.height
                 /\ ret.id = prevLatest.ret.id

\* the result of resolving a hash alone, resolved again as a full identifier
C27_Witness ==
    /\ AgainDone /\ op = "Block"
    /\ prevLatest.arg.Index = NoIndex /\ prevLatest.arg.Hash # <<>>
    /\ prevLatest.ret.kind = "nil"
    /\ prevLatest.ret.height > 0
    /\ arg = rosettaBlockID(prevLatest.ret.height, prevLatest.ret.id)
    /\ ret = prevLatest.ret

\* the identifier built from a result passes the completeness check
C27_WitnessComplete ==
    /\ AgainDone /\ op = "CompleteBlockID"
    /\ prevLatest.ret.kind = "nil"
    /\ arg = rosettaBlockID(prevLatest.ret.height, prevLatest.ret.id)
    /\ ret.kind = "nil"

----------------------------------------------------------------------------
(* Concurrent calls of Validator.Block: one task per inbound query.  The   *)
(* locals of a call (pc, arg, rosBlockID, last, calls, collabErr, ret) are *)
(* functions of the task; the Validator holds only the accessAPI, so the   *)
(* chain (chainFirst, head) is all the tasks share.  The node answers      *)
(* every call; a lookup of a block the chain does not have is not found.   *)

Tasks == {"t1", "t2"}

\* an assignment to a local of task t
Local(f, t, value) == [f EXCEPT ![t] = value]

\* a head height that is kept in a field all calls share
StoreLastShared(t, height) == [u \in Tasks |-> height]

\* last, err := v.accessAPI.GetLatestBlockHeader(...): a local of the call
StoreLast(t, height) == Local(last, t, height)

TaskReturns(t, r) ==
    /\ pc' = Local(pc, t, "done")
    /\ ret' = Local(ret, t, r)

(* lines 31-74 in task t *)
TaskBlock(t, id) ==
    /\ pc[t] = "idle"
    /\ arg' = Local(arg, t, id)
    /\ rosBlockID' = Local(rosBlockID, t, id)
    /\ last' = Local(last, t, NoIndex)
    /\ calls' = Local(calls, t, NoCalls)
    /\ collabErr' = Local(collabErr, t, Nil)
    /\ IF IsLatest(id)
       THEN pc' = Local(pc, t, "latest") /\ ret' = Local(ret, t, NoReturn)
       ELSE IF id.Hash # <<>> /\ HexStringToIdentifier(id.Hash).err # Nil
       THEN TaskReturns(t, InvalidBlock(blockInvalid, {<<"block_hash", id.Hash>>}))
       ELSE IF id.Index # NoIndex
       THEN IF TooLow(id.Index)
            THEN TaskReturns(t, InvalidBlock(blockTooLow,
                     {<<"block_index", id.Index>>, <<"first_index", first>>}))
            ELSE pc' = Local(pc, t, "last") /\ ret' = Local(ret, t, NoReturn)
       ELSE pc' = Local(pc, t, "byID") /\ ret' = Local(ret, t, NoReturn)
    /\ UNCHANGED <<chainFirst, head, op, prevLatest>>

(* lines 36-45 in task t *)
TaskGetLatestBlockHeaderLatest(t) ==
    /\ pc[t] = "latest"
    /\ calls' = Local(calls, t, [calls[t] EXCEPT !.latest = @ + 1])
    /\ last' = StoreLast(t, Header(head).Height)
    /\ TaskReturns(t, LatestResult(Header(head)))
    /\ UNCHANGED <<chainFirst, head, op, arg, rosBlockID, collabErr, prevLatest>>

(* lines 76-88 in task t *)
TaskGetLatestBlockHeaderRange(t) ==
    /\ pc[t] = "last"
    /\ calls' = Local(calls, t, [calls[t] EXCEPT !.latest = @ + 1])
    /\ last' = StoreLast(t, Header(head).Height)
    /\ IF TooHigh(rosBlockID[t].Index, Header(head).Height)
       THEN TaskReturns(t, TooHighFailure(rosBlockID[t], Header(head).Height))
       ELSE pc' = Local(pc, t, "byHeight") /\ ret' = ret
    /\ UNCHANGED <<chainFirst, head, op, arg, rosBlockID, collabErr, prevLatest>>

(* lines 93-100 in task t *)
TaskGetBlockHeaderByID(t) ==
    /\ pc[t] = "byID"
    /\ calls' = Local(calls, t, [calls[t] EXCEPT !.byID = @ + 1])
    /\ LET blockID == HexToID(rosBlockID[t].Hash)
       IN  IF HeightsOf(blockID) = {}
           THEN /\ collabErr' = Local(collabErr, t, NotFound)
                /\ rosBlockID' = rosBlockID
                /\ TaskReturns(t, Errorf("could not get height for block", NotFound))
           ELSE /\ collabErr' = collabErr
                /\ \E h \in HeightsOf(blockID) :
                       rosBlockID' = Local(rosBlockID, t,
                           [rosBlockID[t] EXCEPT !.Index = Header(h).Height])
                /\ pc' = Local(pc, t, "byHeight")
                /\ ret' = ret
    /\ UNCHANGED <<chainFirst, head, op, arg, last, prevLatest>>

(* lines 104-124 in task t *)
TaskGetBlockHeaderByHeight(t) ==
    /\ pc[t] = "byHeight"
    /\ calls' = Local(calls, t, [calls[t] EXCEPT !.byHeight = @ + 1])
    /\ LET header == Header(rosBlockID[t].Index)
           identifier == HexStringToIdentifier(Hex(header.ID))
       IN  IF ~Known(rosBlockID[t].Index)
           THEN /\ collabErr' = Local(collabErr, t, NotFound)
                /\ TaskReturns(t, Errorf("could not get header", NotFound))
           ELSE /\ collabErr' = collabErr
                /\ IF Mismatch(rosBlockID[t].Hash, header)
                   THEN TaskReturns(t, InvalidBlock(blockMismatch,
                            {<<"block_index", rosBlockID[t].Index>>,
                             <<"block_hash", rosBlockID[t].Hash>>,
                             <<"want_hash", Hex(header.ID)>>}))
                   ELSE IF identifier.err # Nil
                   THEN TaskReturns(t, Errorf("could not convert to identifier",
                                              identifier.err))
                   ELSE TaskReturns(t, Success(header.Height, identifier.id))
    /\ UNCHANGED <<chainFirst, head, op, arg, rosBlockID, last, prevLatest>>

\* the query of task t is answered; the task takes the next query
TaskReturn(t) ==
    /\ pc[t] = "done"
    /\ pc' = Local(pc, t, "idle")
    /\ arg' = Local(arg, t, NoBlockID)
    /\ rosBlockID' = Local(rosBlockID, t, NoBlockID)
    /\ last' = Local(last, t, NoIndex)
    /\ calls' = Local(calls, t, NoCalls)
    /\ collabErr' = Local(collabErr, t, Nil)
    /\ ret' = Local(ret, t, NoReturn)
    /\ UNCHANGED <<chainFirst, head, op, prevLatest>>

InitTasks ==
    /\ chainFirst \in 0..MaxFirst
    /\ head = chainFirst
    /\ pc = [t \in Tasks |-> "idle"]
    /\ op = "Block"
    /\ arg = [t \in Tasks |-> NoBlockID]
    /\ rosBlockID = [t \in Tasks |-> NoBlockID]
    /\ last = [t \in Tasks |-> NoIndex]
    /\ calls = [t \in Tasks |-> NoCalls]
    /\ collabErr = [t \in Tasks |-> Nil]
    /\ ret = [t \in Tasks |-> NoReturn]
    /\ prevLatest = NoPrev
    /\ GeneratorUnused
    /\ ConverterUnused

NextTasks ==
    \* the identifiers the tasks resolve: every index, with no hash, the hash
    \* of the first block or the hash of the last block the chain can have
    \/ \E t \in Tasks :
          \E id \in {b \in BlockIDs :
                       b.Hash \in {<<>>, Hex(CanonicalID(0)), Hex(CanonicalID(MaxHeight))}} :
              TaskBlock(t, id) /\ UNCHANGED <<gvars, cvars>>
    \/ \E t \in Tasks : TaskGetLatestBlockHeaderLatest(t) /\ UNCHANGED <<gvars, cvars>>
    \/ \E t \in Tasks : TaskGetLatestBlockHeaderRange(t) /\ UNCHANGED <<gvars, cvars>>
    \/ \E t \in Tasks : TaskGetBlockHeaderByID(t) /\ UNCHANGED <<gvars, cvars>>
    \/ \E t \in Tasks : TaskGetBlockHeaderByHeight(t) /\ UNCHANGED <<gvars, cvars>>
    \/ \E t \in Tasks : TaskReturn(t) /\ UNCHANGED <<gvars, cvars>>
    \/ AdvanceHead /\ UNCHANGED <<gvars, cvars>>

SpecTasks == InitTasks /\ [][NextTasks]_allvars

(* Properties of concurrent calls *)

\* the locals of the call of task t
Locals(t) == <<pc[t], arg[t], rosBlockID[t], last[t], calls[t], collabErr[t], ret[t]>>

\* C23: under every interleaving of the steps of concurrent Block calls with
\* the growth of the chain, a call given only an index that was at most the
\* head height it fetched (and whose lookups were answered) returns the
\* index and the canonical identifier of that height; a step of one call
\* changes no local of another call and nothing of the chain, the growth of
\* the chain changes no local, and two calls with the same identifier that
\* saw the same of the chain return the same.
C23_ConcurrentCalls ==
    /\ [](\A t \in Tasks :
            (pc[t] = "done" /\ arg[t].Index # NoIndex /\ arg[t].Hash = <<>>
               /\ last[t] # NoIndex /\ arg[t].Index <= last[t]
               /\ collabErr[t] = Nil) =>
                /\ ret[t].kind = "nil"
                /\ ret[t].height = arg[t].Index
                /\ ret[t].id = CanonicalID(arg[t].Index))
    /\ [](\A t, u \in Tasks :
            (pc[t] = "done" /\ pc[u] = "done" /\ arg[t] = arg[u]
               /\ last[t] = last[u] /\ rosBlockID[t] = rosBlockID[u]
               /\ collabErr[t] = collabErr[u]) => ret[t] = ret[u])
    /\ [][/\ \A t, u \in Tasks :
               (t # u /\ Locals(t)' # Locals(t)) =>
                   (Locals(u)' = Locals(u) /\ head' = head)
          /\ head' # head => (head' > head /\ \A t \in Tasks : Locals(t)' = Locals(t))
          /\ chainFirst' = chainFirst]_allvars

\* a call passed its range check, another call and two new blocks came in
\* between, and it returned the block of its index
C23_Witness ==
    /\ pc["t1"] = "done"
    /\ arg["t1"].Index # NoIndex /\ arg["t1"].Hash = <<>>
    /\ last["t1"] = arg["t1"].Index
    /\ head >= last["t1"] + 2
    /\ ret["t1"].kind = "nil"
    /\ pc["t2"] = "done"
    /\ arg["t2"] = arg["t1"]
    /\ last["t2"] > last["t1"]
    /\ ret["t2"] = ret["t1"]

----------------------------------------------------------------------------
(* The script generator (package scripts) *)

\* token symbols a caller may name, and the chains and contract addresses
Symbols == {"FLOW", "FUSD", "BLT"}

Mainnet == "flow-mainnet"

ChainIDs == {Mainnet, "flow-testnet", "flow-localnet"}

\* flow.HexToAddress: the address with these hex digits
HexToAddress(hex) == <<"Address", hex>>

\* the address argument of a method that takes none
NoAddress == <<"Address", "">>

\* Address.String, as a template prints an address: its hex digits
AddressString(address) == address[2]

Addresses ==
    {HexToAddress(h) : h \in {"c6c77b9f5c7a378f", "d796ff17107bbff6", "1654653399040a61"}}

\* dps.Token of a symbol
Token(symbol) ==
    [Symbol |-> symbol,
     Address |-> HexToAddress(CASE symbol = "FLOW" -> "1654653399040a61"
                                [] symbol = "FUSD" -> "3c5959b568896393"
                                [] OTHER -> "0f9df91c9121c460"),
     Type |-> CASE symbol = "FLOW" -> "FlowToken"
                [] symbol = "FUSD" -> "FUSD"
                [] OTHER -> "BloctoToken",
     Vault |-> "/storage/Vault" \o symbol,
     Receiver |-> "/public/Receiver" \o symbol,
     Balance |-> "/public/Balance" \o symbol]

\* dps.Params of a chain with a token registry over the given symbols
Params(chainID, registered) ==
    [ChainID |-> chainID,
     FungibleToken |-> HexToAddress(IF chainID = Mainnet THEN "f233dcee88fe0abe"
                                    ELSE "ee82856bf20e2aa6"),
     StakingTable |-> HexToAddress(IF chainID = Mainnet THEN "8624b52f9ddcd04a"
                                   ELSE "f8d6e0586b0a20c7"),
     Tokens |-> [symbol \in registered |-> Token(symbol)]]

AllParams == {Params(c, r) : c \in ChainIDs, r \in SUBSET Symbols}

\* parts of a parsed template: literal text, or a field of the data
Lit(text) == [field |-> Nil, text |-> text]
Field(name) == [field |-> name, text |-> ""]

\* const getStakedBalance
getStakedBalance ==
    << Lit("import FungibleToken from 0x"), Field("Params.FungibleToken"),
       Lit("import "), Field("Token.Type"), Lit(" from 0x"), Field("Token.Address"),
       Lit("import FlowIDTableStaking from 0x"), Field("Params.StakingTable"),
       Lit("getAccount(account).getCapability("), Field("Token.Balance"),
       Lit(").borrow<&"), Field("Token.Type"),
       Lit(".Vault{FungibleToken.Balance}>() return vaultBalance + stakedBalance") >>

\* const getBalance
getBalance ==
    << Lit("import FungibleToken from 0x"), Field("Params.FungibleToken"),
       Lit("import "), Field("Token.Type"), Lit(" from 0x"), Field("Token.Address"),
       Lit("getAccount(account).getCapability("), Field("Token.Balance"),
       Lit(").borrow<&"), Field("Token.Type"),
       Lit(".Vault{FungibleToken.Balance}>() return vaultRef.balance") >>

\* const transferTokens
transferTokens ==
    << Lit("import FungibleToken from 0x"), Field("Params.FungibleToken"),
       Lit("import "), Field("Token.Type"), Lit(" from 0x"), Field("Token.Address"),
       Lit("signer.borrow<&"), Field("Token.Type"), Lit(".Vault>(from: "),
       Field("Token.Vault"), Lit(") getCapability("), Field("Token.Receiver"),
       Lit(").deposit") >>

\* const tokensDeposited
tokensDeposited ==
    << Lit("A."), Field("Token.Address"), Lit("."), Field("Token.Type"),
       Lit(".TokensDeposited") >>

\* const tokensWithdrawn
tokensWithdrawn ==
    << Lit("A."), Field("Token.Address"), Lit("."), Field("Token.Type"),
       Lit(".TokensWithdrawn") >>

\* const delegatorRewardsPaid
delegatorRewardsPaid ==
    << Lit("A."), Field("Params.StakingTable"),
       Lit(".FlowIDTableStaking.DelegatorRewardsPaid") >>

\* var mainnetContracts: contract address (hex) -> template source
mainnetContracts ==
    [hex \in {"c6c77b9f5c7a378f", "d796ff17107bbff6"} |->
       << Lit("import FungibleToken from 0x"), Field("Params.FungibleToken"),
          Lit("import "), Field("Token.Type"), Lit(" from 0x"), Field("Token.Address"),
          Lit(IF hex = "c6c77b9f5c7a378f"
              THEN "import FlowSwapPair from 0xc6c77b9f5c7a378f getCapability("
              ELSE "import Versus from 0xd796ff17107bbff6 getCapability("),
          Field("Token.Balance"), Lit(").borrow<&"), Field("Token.Type"),
          Lit(IF hex = "c6c77b9f5c7a378f"
              THEN ".Vault> return vaultRef.balance + FlowSwapPair.getPoolAmounts().token1Amount"
              ELSE ".Vault> return totalFlow + vaultRef.balance") >>]

\* a constructor that files the mainnet overrides under the chain of params
NewGeneratorOwnChain(params) ==
    [params |-> params,
     getBalance |-> getBalance,
     getStakedBalance |-> getStakedBalance,
     transferTokens |-> transferTokens,
     tokensDeposited |-> tokensDeposited,
     tokensWithdrawn |-> tokensWithdrawn,
     delegatorRewardsPaid |-> delegatorRewardsPaid,
     custom |-> [chainID \in {params.ChainID} |->
                   [address \in {HexToAddress(hex) : hex \in DOMAIN mainnetContracts} |->
                      mainnetContracts[CHOOSE hex \in DOMAIN mainnetContracts :
                                          HexToAddress(hex) = address]]]]

(* NewGenerator *)
NewGenerator(params) ==
    [params |-> params,
     getBalance |-> getBalance,
     getStakedBalance |-> getStakedBalance,
     transferTokens |-> transferTokens,
     tokensDeposited |-> tokensDeposited,
     tokensWithdrawn |-> tokensWithdrawn,
     delegatorRewardsPaid |-> delegatorRewardsPaid,
     custom |-> [chainID \in {Mainnet} |->
                   [address \in {HexToAddress(hex) : hex \in DOMAIN mainnetContracts} |->
                      mainnetContracts[CHOOSE hex \in DOMAIN mainnetContracts :
                                          HexToAddress(hex) = address]]]]

\* data whose balance path is the token's storage path
DataVaultPath(params, token) ==
    [name \in {"Params.ChainID", "Params.FungibleToken", "Params.StakingTable",
               "Token.Symbol", "Token.Address", "Token.Type", "Token.Vault",
               "Token.Receiver", "Token.Balance"} |->
        CASE name = "Params.ChainID" -> params.ChainID
          [] name = "Params.FungibleToken" -> AddressString(params.FungibleToken)
          [] name = "Params.StakingTable" -> AddressString(params.StakingTable)
          [] name = "Token.Symbol" -> token.Symbol
          [] name = "Token.Address" -> AddressString(token.Address)
          [] name = "Token.Type" -> token.Type
          [] name = "Token.Receiver" -> token.Receiver
          [] OTHER -> token.Vault]

\* the struct {Params, Token} a template is executed with
Data(params, token) ==
    [name \in {"Params.ChainID", "Params.FungibleToken", "Params.StakingTable",
               "Token.Symbol", "Token.Address", "Token.Type", "Token.Vault",
               "Token.Receiver", "Token.Balance"} |->
        CASE name = "Params.ChainID" -> params.ChainID
          [] name = "Params.FungibleToken" -> AddressString(params.FungibleToken)
          [] name = "Params.StakingTable" -> AddressString(params.StakingTable)
          [] name = "Token.Symbol" -> token.Symbol
          [] name = "Token.Address" -> AddressString(token.Address)
          [] name = "Token.Type" -> token.Type
          [] name = "Token.Vault" -> token.Vault
          [] name = "Token.Receiver" -> token.Receiver
          [] OTHER -> token.Balance]

\* template.Execute: fails on a field the data does not have
Execute(template, data) ==
    IF \E i \in 1..Len(template) :
          template[i].field # Nil /\ template[i].field \notin DOMAIN data
    THEN [buf |-> <<>>, err |-> "can't evaluate field"]
    ELSE [buf |-> [i \in 1..Len(template) |->
                     IF template[i].field = Nil THEN template[i].text
                     ELSE data[template[i].field]],
          err |-> Nil]

\* a compile that renders an unregistered symbol with the zero Token
compileNoCheck(gen, template, symbol) ==
    LET token == IF symbol \in DOMAIN gen.params.Tokens
                 THEN gen.params.Tokens[symbol]
                 ELSE [Symbol |-> "", Address |-> HexToAddress("0000000000000000"),
                       Type |-> "", Vault |-> "", Receiver |-> "", Balance |-> ""]
        done == Execute(template, Data(gen.params, token))
    IN  IF done.err # Nil
        THEN [buf |-> <<>>, err |-> "could not execute template: " \o done.err]
        ELSE [buf |-> done.buf, err |-> Nil]

(* Generator.compile *)
compile(gen, template, symbol) ==
    IF symbol \notin DOMAIN gen.params.Tokens
    THEN [buf |-> <<>>, err |-> "invalid token symbol (" \o symbol \o ")"]
    ELSE LET done == Execute(template, Data(gen.params, gen.params.Tokens[symbol]))
         IN  IF done.err # Nil
             THEN [buf |-> <<>>, err |-> "could not execute template: " \o done.err]
             ELSE [buf |-> done.buf, err |-> Nil]

\* a nil []byte
NilBytes == <<"nil", <<>>>>

(* Generator.bytes: found is what only Custom returns, true elsewhere *)
bytes(gen, template, symbol) ==
    LET c == compile(gen, template, symbol)
    IN  IF c.err # Nil
        THEN [found |-> TRUE, out |-> NilBytes,
              err |-> "could not compile template: " \o c.err]
        ELSE [found |-> TRUE, out |-> <<"bytes", c.buf>>, err |-> Nil]

(* Generator.string *)
string(gen, template, symbol) ==
    LET c == compile(gen, template, symbol)
    IN  IF c.err # Nil
        THEN [found |-> TRUE, out |-> <<"string", <<>>>>,
              err |-> "could not compile template: " \o c.err]
        ELSE [found |-> TRUE, out |-> <<"string", c.buf>>, err |-> Nil]

\* a method of the generator was called and has returned
Called(method, symbol, chainID, address, result) ==
    /\ gcall' = [method |-> method, symbol |-> symbol, chainID |-> chainID,
                 address |-> address]
    /\ gret' = result
    /\ gprev' = [call |-> gcall, ret |-> gret]

(* Generator.GetBalance *)
GetBalance(symbol) ==
    /\ Called("GetBalance", symbol, Nil, NoAddress, bytes(g, g.getBalance, symbol))
    /\ UNCHANGED g

(* Generator.GetStakedBalance *)
GetStakedBalance(symbol) ==
    /\ Called("GetStakedBalance", symbol, Nil, NoAddress,
              bytes(g, g.getStakedBalance, symbol))
    /\ UNCHANGED g

(* Generator.TransferTokens *)
TransferTokens(symbol) ==
    /\ Called("TransferTokens", symbol, Nil, NoAddress, bytes(g, g.transferTokens, symbol))
    /\ UNCHANGED g

(* Generator.TokensDeposited *)
TokensDeposited(symbol) ==
    /\ Called("TokensDeposited", symbol, Nil, NoAddress,
              string(g, g.tokensDeposited, symbol))
    /\ UNCHANGED g

(* Generator.TokensWithdrawn *)
TokensWithdrawn(symbol) ==
    /\ Called("TokensWithdrawn", symbol, Nil, NoAddress,
              string(g, g.tokensWithdrawn, symbol))
    /\ UNCHANGED g

(* Generator.DelegatorRewardsPaid *)
DelegatorRewardsPaid(symbol) ==
    /\ Called("DelegatorRewardsPaid", symbol, Nil, NoAddress,
              string(g, g.delegatorRewardsPaid, symbol))
    /\ UNCHANGED g

\* a Custom that reports found only when the rendering succeeded
CustomFoundOnSuccess(symbol, chainID, address) ==
    /\ IF chainID \notin DOMAIN g.custom
       THEN Called("Custom", symbol, chainID, address,
                   [found |-> FALSE, out |-> NilBytes, err |-> Nil])
       ELSE IF address \notin DOMAIN g.custom[chainID]
       THEN Called("Custom", symbol, chainID, address,
                   [found |-> FALSE, out |-> NilBytes, err |-> Nil])
       ELSE Called("Custom", symbol, chainID, address,
                   [bytes(g, g.custom[chainID][address], symbol) EXCEPT
                      !.found = (bytes(g, g.custom[chainID][address], symbol).err = Nil)])
    /\ UNCHANGED g

\* a Custom that looks up the chain but not the address
CustomChainOnly(symbol, chainID, address) ==
    /\ IF chainID \notin DOMAIN g.custom
       THEN Called("Custom", symbol, chainID, address,
                   [found |-> FALSE, out |-> NilBytes, err |-> Nil])
       ELSE LET template == IF address \in DOMAIN g.custom[chainID]
                            THEN g.custom[chainID][address] ELSE <<>>
            IN  Called("Custom", symbol, chainID, address,
                       [bytes(g, template, symbol) EXCEPT !.found = TRUE])
    /\ UNCHANGED g

\* a Custom that creates the override map of a chain it has not seen
CustomLazyInit(symbol, chainID, address) ==
    /\ IF chainID \notin DOMAIN g.custom
       THEN /\ Called("Custom", symbol, chainID, address,
                      [found |-> FALSE, out |-> NilBytes, err |-> Nil])
            /\ g' = [g EXCEPT !.custom =
                       [c \in DOMAIN g.custom \cup {chainID} |->
                          IF c \in DOMAIN g.custom THEN g.custom[c] ELSE <<>>]]
       ELSE /\ IF address \notin DOMAIN g.custom[chainID]
               THEN Called("Custom", symbol, chainID, address,
                           [found |-> FALSE, out |-> NilBytes, err |-> Nil])
               ELSE Called("Custom", symbol, chainID, address,
                           [bytes(g, g.custom[chainID][address], symbol)
                              EXCEPT !.found = TRUE])
            /\ UNCHANGED g

(* Generator.Custom *)
Custom(symbol, chainID, address) ==
    /\ IF chainID \notin DOMAIN g.custom
       THEN Called("Custom", symbol, chainID, address,
                   [found |-> FALSE, out |-> NilBytes, err |-> Nil])
       ELSE IF address \notin DOMAIN g.custom[chainID]
       THEN Called("Custom", symbol, chainID, address,
                   [found |-> FALSE, out |-> NilBytes, err |-> Nil])
       ELSE Called("Custom", symbol, chainID, address,
                   [bytes(g, g.custom[chainID][address], symbol) EXCEPT !.found = TRUE])
    /\ UNCHANGED g

NoCall == [method |-> "none", symbol |-> Nil, chainID |-> Nil, address |-> NoAddress]

NoResult == [found |-> FALSE, out |-> NilBytes, err |-> Nil]

InitGen ==
    /\ \E params \in AllParams : g = NewGenerator(params)
    /\ gcall = NoCall
    /\ gret = NoResult
    /\ gprev = [call |-> NoCall, ret |-> NoResult]
    /\ ValidatorUnused
    /\ ConverterUnused

NextGen ==
    \/ \E symbol \in Symbols : GetBalance(symbol) /\ UNCHANGED <<vars, cvars>>
    \/ \E symbol \in Symbols : GetStakedBalance(symbol) /\ UNCHANGED <<vars, cvars>>
    \/ \E symbol \in Symbols : TransferTokens(symbol) /\ UNCHANGED <<vars, cvars>>
    \/ \E symbol \in Symbols : TokensDeposited(symbol) /\ UNCHANGED <<vars, cvars>>
    \/ \E symbol \in Symbols : TokensWithdrawn(symbol) /\ UNCHANGED <<vars, cvars>>
    \/ \E symbol \in Symbols : DelegatorRewardsPaid(symbol) /\ UNCHANGED <<vars, cvars>>
    \/ \E symbol \in Symbols, chainID \in ChainIDs, address \in Addresses :
          Custom(symbol, chainID, address) /\ UNCHANGED <<vars, cvars>>

SpecGen == InitGen /\ [][NextGen]_allvars

----------------------------------------------------------------------------
(* Properties of the script generator *)

RenderMethods ==
    {"GetBalance", "GetStakedBalance", "TransferTokens", "TokensDeposited",
     "TokensWithdrawn", "DelegatorRewardsPaid"}

\* the symbols of the token registry
Registered == DOMAIN g.params.Tokens

\* the (chain, address) pairs of the static override table
HasOverride(chainID, address) ==
    /\ chainID = "flow-mainnet"
    /\ address \in {<<"Address", "c6c77b9f5c7a378f">>, <<"Address", "d796ff17107bbff6">>}

\* C12: each of the six render methods fails exactly when the symbol is not
\* in the token registry, the error then being the invalid-token-symbol error
\* of compile (wrapped by bytes/string) with no output; for a registered
\* symbol it returns the rendered template and no error.
C12_RenderFailsIffUnknownSymbol ==
    gcall.method \in RenderMethods =>
        IF gcall.symbol \in Registered
        THEN /\ gret.err = Nil
             /\ Len(gret.out[2]) > 0
        ELSE /\ gret.err = "could not compile template: invalid token symbol ("
                               \o gcall.symbol \o ")"
             /\ gret.out \in {<<"nil", <<>>>>, <<"string", <<>>>>}

C12_Witness ==
    /\ gcall.method = "TokensDeposited"
    /\ gcall.symbol \notin Registered
    /\ Registered # {}
    /\ gret.err # Nil
    /\ gprev.call.method = "TransferTokens"
    /\ gprev.call.symbol \in Registered
    /\ gprev.ret.err = Nil

\* C13: the balance script rendered for a registered symbol has, at every
\* placeholder of the template, the chain's fungible-token address and that
\* token's type, address and balance path, each of which it contains, and
\* has no type, address or path of another registered token anywhere.
C13_BalanceScriptSubstitution ==
    (gcall.method = "GetBalance" /\ gcall.symbol \in Registered) =>
        LET token == g.params.Tokens[gcall.symbol]
            buf == gret.out[2]
            want(name) ==
                CASE name = "Params.FungibleToken" -> g.params.FungibleToken[2]
                  [] name = "Token.Type" -> token.Type
                  [] name = "Token.Address" -> token.Address[2]
                  [] OTHER -> token.Balance
        IN  /\ gret.err = Nil
            /\ Len(buf) = Len(getBalance)
            /\ \A i \in 1..Len(buf) :
                  IF getBalance[i].field = Nil
                  THEN buf[i] = getBalance[i].text
                  ELSE buf[i] = want(getBalance[i].field)
            /\ \E i \in 1..Len(buf) : buf[i] = g.params.FungibleToken[2]
            /\ \E i \in 1..Len(buf) : buf[i] = token.Type
            /\ \E i \in 1..Len(buf) : buf[i] = token.Address[2]
            /\ \E i \in 1..Len(buf) : buf[i] = token.Balance
            /\ \A other \in Registered \ {gcall.symbol} :
                  \A i \in 1..Len(buf) :
                     /\ buf[i] # g.params.Tokens[other].Type
                     /\ buf[i] # g.params.Tokens[other].Address[2]
                     /\ buf[i] # g.params.Tokens[other].Balance
                     /\ buf[i] # g.params.Tokens[other].Vault
                     /\ buf[i] # g.params.Tokens[other].Receiver

C13_Witness ==
    /\ gcall.method = "GetBalance"
    /\ gcall.symbol = "FLOW"
    /\ Registered = {"FLOW", "FUSD"}
    /\ gret.err = Nil
    /\ \E i \in 1..Len(gret.out[2]) : gret.out[2][i] = "/public/BalanceFLOW"

\* C14: Custom called with a (chain, address) pair that has no entry in the
\* override table returns found = false, no bytes and no error, whatever the
\* symbol, registered or not.
C14_CustomNotFound ==
    (gcall.method = "Custom" /\ ~HasOverride(gcall.chainID, gcall.address)) =>
        /\ gret.found = FALSE
        /\ gret.out = <<"nil", <<>>>>
        /\ gret.err = Nil

C14_Witness ==
    /\ gcall.method = "Custom"
    /\ gcall.chainID = "flow-mainnet"
    /\ ~HasOverride(gcall.chainID, gcall.address)
    /\ gcall.symbol \notin Registered
    /\ gret.found = FALSE

\* C15: no call of a render method or of Custom, failing or not, changes the
\* generator (chain parameters, token registry, the six templates, the
\* override index), and a call returns what the call before it returned when
\* that was the same method with the same arguments.
C15_RenderReadOnly ==
    /\ [][g' = g]_allvars
    /\ []((gcall.method # "none" /\ gprev.call = gcall) => gprev.ret = gret)

C15_Witness ==
    /\ gcall.method = "Custom"
    /\ gcall.chainID = "flow-testnet"
    /\ gprev.call = gcall
    /\ gprev.ret = gret
    /\ g = NewGenerator(g.params)

\* the hex digits of the contract addresses of the static mainnet table
OverrideKeys == {"c6c77b9f5c7a378f", "d796ff17107bbff6"}

\* C28: Custom called with a (chain, address) pair that has an override
\* returns found = true in every case: with the override script rendered for
\* the token and no error when the symbol is registered, and with the
\* invalid-token-symbol error and no bytes when it is not.
C28_CustomFound ==
    (gcall.method = "Custom" /\ HasOverride(gcall.chainID, gcall.address)) =>
        /\ gret.found = TRUE
        /\ IF gcall.symbol \in Registered
           THEN LET token == g.params.Tokens[gcall.symbol]
                    source == mainnetContracts[gcall.address[2]]
                    buf == gret.out[2]
                IN  /\ gret.err = Nil
                    /\ gret.out[1] = "bytes"
                    /\ Len(buf) = Len(source)
                    /\ \A i \in 1..Len(buf) :
                          source[i].field = Nil => buf[i] = source[i].text
                    /\ \E i \in 1..Len(buf) : buf[i] = token.Type
                    /\ \E i \in 1..Len(buf) : buf[i] = token.Balance
           ELSE /\ gret.err = "could not compile template: invalid token symbol ("
                                  \o gcall.symbol \o ")"
                /\ gret.out = <<"nil", <<>>>>

C28_Witness ==
    /\ gcall.method = "Custom"
    /\ HasOverride(gcall.chainID, gcall.address)
    /\ gcall.symbol \notin Registered
    /\ gret.found = TRUE
    /\ gret.err # Nil
    /\ gprev.call.method = "Custom"
    /\ gprev.call.symbol \in Registered
    /\ gprev.ret.found = TRUE
    /\ gprev.ret.err = Nil

\* C29: the override index has an entry for the mainnet chain identifier
\* only, with one template per address key of the static mainnet table:
\* Custom returns found = true exactly for mainnet with one of these
\* addresses, and found = false for every address on every other chain.
C29_OverrideIndexMainnetOnly ==
    /\ DOMAIN g.custom = {"flow-mainnet"}
    /\ DOMAIN g.custom["flow-mainnet"] = {<<"Address", hex>> : hex \in OverrideKeys}
    /\ Cardinality(DOMAIN g.custom["flow-mainnet"]) = Cardinality(OverrideKeys)
    /\ gcall.method = "Custom" =>
          (gret.found <=> /\ gcall.chainID = "flow-mainnet"
                          /\ gcall.address[2] \in OverrideKeys)

C29_Witness ==
    /\ g.params.ChainID = "flow-testnet"
    /\ gcall.method = "Custom"
    /\ gcall.chainID = "flow-testnet"
    /\ gcall.address = <<"Address", "d796ff17107bbff6">>
    /\ gret.found = FALSE
    /\ gprev.call.method = "Custom"
    /\ gprev.call.chainID = "flow-mainnet"
    /\ gprev.call.address = <<"Address", "d796ff17107bbff6">>
    /\ gprev.ret.found = TRUE

----------------------------------------------------------------------------
(* The value normalizer (package retriever: flatten)                       *)
(* Strings are sequences of characters.  A cadence.Value is a record with  *)
(* its type tag, the field identifiers of a Struct, the keys of a          *)
(* Dictionary, the fields, values or elements, and the text of its         *)
(* String method when it is none of the three.                             *)

\* nesting depth of the values flatten is applied to
MaxDepth == 5
\* length of the texts of the scalars
MaxTextLen == 4

\* the back quote character, which a string of this module cannot contain
Backquote == "bq"

\* characters of the text of a scalar: the three quotes, backslash, letters
TextChars == {"\"", "'", Backquote, "\\", "n", "z"}

RECURSIVE TextsOfLen(_)
TextsOfLen(n) ==
    IF n = 0 THEN {<<>>}
    ELSE {Append(t, c) : t \in TextsOfLen(n - 1), c \in TextChars}

Texts == UNION {TextsOfLen(n) : n \in 0..MaxTextLen}

Scalar(text) ==
    [tag |-> "Scalar", names |-> <<>>, keys |-> <<>>, items |-> <<>>, text |-> text]

Struct(names, fields) ==
    [tag |-> "Struct", names |-> names, keys |-> <<>>, items |-> fields, text |-> <<>>]

Dictionary(keys, values) ==
    [tag |-> "Dictionary", names |-> <<>>, keys |-> keys, items |-> values, text |-> <<>>]

Array(values) ==
    [tag |-> "Array", names |-> <<>>, keys |-> <<>>, items |-> values, text |-> <<>>]

\* the leaves of nested values: one with a quoted text and one with a bare one
Leaves == {Scalar(t) : t \in {<<"\"", "n", "\"">>, <<"z">>}}

\* sequences of zero, one or two elements of a set
UpToTwo(S) == {<<>>} \cup {<<x>> : x \in S} \cup {<<x, y>> : x, y \in S}

\* field identifiers, and the pairs of distinct ones
NameSeqs == {<<>>, << <<"i", "d">> >>, << <<"i", "d">>, <<"r", "o", "l", "e">> >>}

KeySeqs ==
    {<<>>} \cup {<<k>> : k \in Leaves}
           \cup {s \in {<<k, l>> : k, l \in Leaves} : s[1] # s[2]}

\* containers of up to two leaves
Wide ==
    {v \in [tag : {"Struct"}, names : NameSeqs, keys : {<<>>},
             items : UpToTwo(Leaves), text : {<<>>}] :
           Len(v.names) = Len(v.items)}
    \cup {v \in [tag : {"Dictionary"}, names : {<<>>}, keys : KeySeqs,
                 items : UpToTwo(Leaves), text : {<<>>}] :
             Len(v.keys) = Len(v.items)}
    \cup {Array(e) : e \in UpToTwo(Leaves)}

\* values nested up to depth d: a container of one value of depth d - 1
RECURSIVE Nested(_)
Nested(d) ==
    IF d <= 1 THEN Leaves \cup Wide
    ELSE LET inner == Nested(d - 1)
         IN  inner
             \cup {Struct(<< <<"i", "d">> >>, <<v>>) : v \in inner}
             \cup {Dictionary(<<k>>, <<v>>) : k \in {Scalar(<<"z">>)}, v \in inner}
             \cup {Array(<<v>>) : v \in inner}

\* the values flatten is applied to
Values == {Scalar(t) : t \in Texts} \cup Nested(MaxDepth)

(* strconv.Unquote *)

ErrSyntax == "invalid syntax"

\* index of the first occurrence of c in s at or after position from, or 0
RECURSIVE Index(_, _, _)
Index(s, c, from) ==
    IF from > Len(s) THEN 0
    ELSE IF s[from] = c THEN from
    ELSE Index(s, c, from + 1)

Contains(s, c) == \E i \in 1..Len(s) : s[i] = c

\* strconv.UnquoteChar on a text that does not start with the quote
UnquoteChar(in, quote) ==
    IF in[1] # "\\" THEN [err |-> Nil, value |-> in[1], rem |-> Tail(in)]
    ELSE IF Len(in) <= 1 THEN [err |-> ErrSyntax, value |-> "", rem |-> in]
    ELSE LET c == in[2]
             rest == SubSeq(in, 3, Len(in))
         IN  CASE c = "n" -> [err |-> Nil, value |-> "\n", rem |-> rest]
               [] c = "\\" -> [err |-> Nil, value |-> "\\", rem |-> rest]
               [] (c = "'" \/ c = "\"") ->
                     IF c # quote THEN [err |-> ErrSyntax, value |-> "", rem |-> in]
                     ELSE [err |-> Nil, value |-> c, rem |-> rest]
               [] OTHER -> [err |-> ErrSyntax, value |-> "", rem |-> in]

\* the loop of unquote over the text after the opening quote
RECURSIVE UnquoteLoop(_, _, _)
UnquoteLoop(in, quote, buf) ==
    IF Len(in) > 0 /\ in[1] # quote
    THEN LET r == UnquoteChar(in, quote)
         IN  IF in[1] = "\n" \/ r.err # Nil
             THEN [err |-> ErrSyntax, out |-> <<>>, rem |-> in]
             ELSE IF quote = "'"
             THEN [err |-> Nil, out |-> Append(buf, r.value), rem |-> r.rem]
             ELSE UnquoteLoop(r.rem, quote, Append(buf, r.value))
    ELSE [err |-> Nil, out |-> buf, rem |-> in]

\* strconv.unquote(in, true)
unquote(in) ==
    IF Len(in) < 2 THEN [err |-> ErrSyntax, out |-> <<>>, rem |-> in]
    ELSE LET quote == in[1]
             end == Index(in, quote, 2)
         IN  IF end = 0 THEN [err |-> ErrSyntax, out |-> <<>>, rem |-> in]
             ELSE IF quote = Backquote
             THEN [err |-> Nil, out |-> SubSeq(in, 2, end - 1),
                   rem |-> SubSeq(in, end + 1, Len(in))]
             ELSE IF quote \in {"\"", "'"}
             THEN IF /\ ~Contains(SubSeq(in, 1, end), "\\")
                     /\ ~Contains(SubSeq(in, 1, end), "\n")
                     /\ (quote = "\"" \/ end <= 3)
                  THEN [err |-> Nil, out |-> SubSeq(in, 2, end - 1),
                        rem |-> SubSeq(in, end + 1, Len(in))]
                  ELSE LET l == UnquoteLoop(Tail(in), quote, <<>>)
                       IN  IF l.err # Nil THEN l
                           ELSE IF ~(Len(l.rem) > 0 /\ l.rem[1] = quote)
                           THEN [err |-> ErrSyntax, out |-> <<>>, rem |-> in]
                           ELSE [err |-> Nil, out |-> l.out, rem |-> Tail(l.rem)]
             ELSE [err |-> ErrSyntax, out |-> <<>>, rem |-> in]

Unquote(s) ==
    LET u == unquote(s)
    IN  IF Len(u.rem) > 0 THEN [err |-> ErrSyntax, out |-> <<>>]
        ELSE [err |-> u.err, out |-> u.out]

(* flatten: the results are a map (a set of key/value pairs with one pair  *)
(* per key), a list, or a string                                           *)

MapResult(pairs) == [kind |-> "map", map |-> pairs, list |-> <<>>, text |-> <<>>]

ListResult(list) == [kind |-> "list", map |-> {}, list |-> list, text |-> <<>>]

StringResult(text) == [kind |-> "string", map |-> {}, list |-> <<>>, text |-> text]

\* result[key] = value
MapPut(result, key, value) ==
    {p \in result : p[1] # key} \cup {<<key, value>>}

\* an append that puts the element in front
appendFront(result, value) == <<value>> \o result

\* result = append(result, value)
append(result, value) == Append(result, value)

\* a scalar that is returned as its raw text
scalarRaw(text) == StringResult(text)

\* lines 213-217: the unquoted text, or the text itself
scalar(text) ==
    LET result == Unquote(text)
    IN  IF result.err # Nil THEN StringResult(text) ELSE StringResult(result.out)

\* field.String() of a value that is no Struct, Dictionary or Array
String(value) == value.text

RECURSIVE flatten(_)
RECURSIVE flattenStruct(_, _, _)
RECURSIVE flattenDictionary(_, _, _)
RECURSIVE flattenArray(_, _, _)

\* lines 196-198: the loop over structValue.Fields from index j
flattenStruct(structValue, j, result) ==
    IF j > Len(structValue.items) THEN result
    ELSE flattenStruct(structValue, j + 1,
             MapPut(result, structValue.names[j], flatten(structValue.items[j])))

\* lines 202-204: the loop over dictionaryValue.Pairs from index j
flattenDictionary(dictionaryValue, j, result) ==
    IF j > Len(dictionaryValue.items) THEN result
    ELSE flattenDictionary(dictionaryValue, j + 1,
             MapPut(result, String(dictionaryValue.keys[j]),
                    flatten(dictionaryValue.items[j])))

\* lines 208-210: the loop over arrayValue.Values from index j
flattenArray(arrayValue, j, result) ==
    IF j > Len(arrayValue.items) THEN result
    ELSE flattenArray(arrayValue, j + 1,
             append(result, flatten(arrayValue.items[j])))

(* flatten *)
flatten(field) ==
    IF field.tag = "Struct" THEN MapResult(flattenStruct(field, 1, {}))
    ELSE IF field.tag = "Dictionary" THEN MapResult(flattenDictionary(field, 1, {}))
    ELSE IF field.tag = "Array" THEN ListResult(flattenArray(field, 1, <<>>))
    ELSE scalar(String(field))

NoFlat == [kind |-> "none", map |-> {}, list |-> <<>>, text |-> <<>>]

\* flatten is applied to the value and returns
Flatten ==
    /\ cout = NoFlat
    /\ cout' = flatten(cin)
    /\ UNCHANGED <<cin, vars, gvars>>

InitFlatten ==
    /\ cin \in Values
    /\ cout = NoFlat
    /\ ValidatorUnused
    /\ GeneratorUnused

SpecFlatten == InitFlatten /\ [][Flatten]_allvars

(* Properties of the value normalizer *)

FlattenDone == cout # NoFlat

\* the keys of a map result
KeysOf(pairs) == {p[1] : p \in pairs}

\* the text of a flattened scalar is the scalar's text or its unquoted form
ScalarText(text, out) ==
    \/ out = text
    \/ Unquote(text).err = Nil /\ out = Unquote(text).out

\* out has the shape of value at every level: a map with one pair for each
\* field identifier or key text, a list with the elements in source order,
\* or a string
RECURSIVE SameShape(_, _)
SameShape(value, out) ==
    CASE value.tag = "Struct" ->
           /\ out.kind = "map"
           /\ KeysOf(out.map) = {value.names[j] : j \in 1..Len(value.names)}
           /\ Cardinality(out.map) = Cardinality(KeysOf(out.map))
           /\ \A j \in 1..Len(value.items) :
                  \E p \in out.map :
                      p[1] = value.names[j] /\ SameShape(value.items[j], p[2])
      [] value.tag = "Dictionary" ->
           /\ out.kind = "map"
           /\ KeysOf(out.map) = {value.keys[j].text : j \in 1..Len(value.keys)}
           /\ Cardinality(out.map) = Cardinality(KeysOf(out.map))
           /\ \A j \in 1..Len(value.items) :
                  \E p \in out.map :
                      p[1] = value.keys[j].text /\ SameShape(value.items[j], p[2])
      [] value.tag = "Array" ->
           /\ out.kind = "list"
           /\ Len(out.list) = Len(value.items)
           /\ \A j \in 1..Len(value.items) :
                  SameShape(value.items[j], out.list[j])
      [] OTHER ->
           /\ out.kind = "string"
           /\ ScalarText(value.text, out.text)

\* C16: flatten returns for every value nested up to MaxDepth, and what it
\* returns has the shape of the value: a Struct is a map from each field
\* identifier to the flattened field, a Dictionary a map from each key's
\* text to the flattened value, an Array the list of the flattened elements
\* in source order with the same length, anything else a string.
C16_FlattenShape ==
    FlattenDone =>
        /\ cout.kind \in {"map", "list", "string"}
        /\ SameShape(cin, cout)

\* five containers around a pair of different leaves
C16_Witness ==
    /\ FlattenDone
    /\ cin = Array(<<Struct(<< <<"i", "d">> >>,
                 <<Dictionary(<<Scalar(<<"z">>)>>,
                     <<Array(<<Array(<<Scalar(<<"\"", "n", "\"">>),
                                       Scalar(<<"z">>)>>)>>)>>)>>)>>)
    /\ cout.kind = "list"
    /\ Len(cout.list) = 1

\* a text that is not in quotes: shorter than two characters, or one that
\* does not start with a quote character
Bare(text) == Len(text) < 2 \/ text[1] \notin {"\"", "'", Backquote}

\* a text in double quotes with only letters between them
QuotedLetters(text) ==
    /\ Len(text) >= 2
    /\ text[1] = "\""
    /\ text[Len(text)] = "\""
    /\ \A i \in 2..(Len(text) - 1) : text[i] \in {"n", "z"}

\* C17: for a value that is no Struct, Dictionary or Array, flatten returns
\* a string: the unquoted text when strconv.Unquote succeeds, else the raw
\* text.  A text not in quotes comes back unchanged, and letters in double
\* quotes come back without the quotes.
C17_ScalarUnquoted ==
    (FlattenDone /\ cin.tag = "Scalar") =>
        /\ cout.kind = "string"
        /\ Unquote(cin.text).err = Nil => cout.text = Unquote(cin.text).out
        /\ Unquote(cin.text).err # Nil => cout.text = cin.text
        /\ Bare(cin.text) => cout.text = cin.text
        /\ QuotedLetters(cin.text) =>
               cout.text = SubSeq(cin.text, 2, Len(cin.text) - 1)

C17_Witness ==
    /\ FlattenDone
    /\ cin = Scalar(<<"\"", "z", "n", "\"">>)
    /\ cout = StringResult(<<"z", "n">>)

\* the fallback: a text whose unquoting fails is returned as it is
C17_WitnessFallback ==
    /\ FlattenDone
    /\ cin = Scalar(<<"\"", "\\", "z", "\"">>)
    /\ cout = StringResult(<<"\"", "\\", "z", "\"">>)

----------------------------------------------------------------------------
(* The amount converter (package retriever: UFix64ToUInt64String)          *)
(* Decimal numbers are sequences of digit characters, so that the scale of *)
(* eight digits and the 64-bit range keep their real size.                 *)

\* length of the inputs that are enumerated character by character
MaxInputLen == 4
\* length of the digit strings that fill the long inputs
MaxFillLen == 2

\* fractional digits of a UFix64 (cadence sema.Fix64Scale)
Fix64Scale == 8

\* math.MaxUint64, 18446744073709551615
MaxUint64 ==
    <<"1", "8", "4", "4", "6", "7", "4", "4", "0", "7",
      "3", "7", "0", "9", "5", "5", "1", "6", "1", "5">>

DigitValue(c) ==
    CHOOSE n \in 0..9 : <<"0", "1", "2", "3", "4", "5", "6", "7", "8", "9">>[n + 1] = c

\* characters of the inputs: digits, the point, the sign, a letter
DecChars == {"0", "1", "9", ".", "-", "x"}

RECURSIVE DecStringsOfLen(_, _)
DecStringsOfLen(chars, n) ==
    IF n = 0 THEN {<<>>}
    ELSE {Append(t, c) : t \in DecStringsOfLen(chars, n - 1), c \in chars}

RECURSIVE Zeros(_)
Zeros(n) == IF n <= 0 THEN <<>> ELSE <<"0">> \o Zeros(n - 1)

Fill == UNION {DecStringsOfLen({"0", "1", "9"}, n) : n \in 0..MaxFillLen}

\* integer parts: short ones, and the ones around the largest UFix64
LongIntegers ==
    Fill \cup
    { <<"1", "8", "4", "4", "6", "7", "4", "4", "0", "7", "3", "7">>,
      <<"1", "8", "4", "4", "6", "7", "4", "4", "0", "7", "3", "8">>,
      <<"0", "1", "8", "4", "4", "6", "7", "4", "4", "0", "7", "3", "7">>,
      <<"1", "8", "4", "4", "6", "7", "4", "4", "0", "7", "3", "7", "0">>,
      <<"-", "1">> }

\* fractional parts of eight digits, of nine, and around the largest UFix64
LongFractions ==
    {Zeros(Fix64Scale - Len(t)) \o t : t \in Fill}
    \cup {t \o Zeros(Fix64Scale - Len(t)) : t \in Fill}
    \cup { <<"0", "9", "5", "5", "1", "6", "1", "5">>,
           <<"0", "9", "5", "5", "1", "6", "1", "6">>,
           Zeros(Fix64Scale + 1),
           <<"1">>, <<"0", "9", "5", "5", "1", "6", "2">> }

\* the strings UFix64ToUInt64String is applied to
FixInputs ==
    UNION {DecStringsOfLen(DecChars, n) : n \in 0..MaxInputLen}
    \cup {i \o <<".">> \o f : i \in LongIntegers, f \in LongFractions}

(* cadence.NewUFix64, as called at line 223 *)

AllDigits(s) ==
    \A i \in 1..Len(s) : s[i] \in {"0", "1", "2", "3", "4", "5", "6", "7", "8", "9"}

\* a digit string without its leading zeros; "0" for zero
RECURSIVE StripZeros(_)
StripZeros(s) ==
    IF Len(s) = 0 THEN <<"0">>
    ELSE IF s[1] = "0" /\ Len(s) > 1 THEN StripZeros(Tail(s))
    ELSE s

\* a < b for digit strings of the same length
RECURSIVE LexLess(_, _)
LexLess(a, b) ==
    IF Len(a) = 0 THEN FALSE
    ELSE IF a[1] # b[1] THEN DigitValue(a[1]) < DigitValue(b[1])
    ELSE LexLess(Tail(a), Tail(b))

\* a > b for digit strings without leading zeros
Greater(a, b) ==
    \/ Len(a) > Len(b)
    \/ Len(a) = Len(b) /\ LexLess(b, a)

\* strings.Split(v, "."): the parts of v between the points
RECURSIVE Split(_, _)
Split(v, part) ==
    IF Len(v) = 0 THEN <<part>>
    ELSE IF v[1] = "." THEN <<part>> \o Split(Tail(v), <<>>)
    ELSE Split(Tail(v), Append(part, v[1]))

FixError(text) == [err |-> text, value |-> <<>>]

\* a range check that lets every value pass
InRangeAlways(scaled) == TRUE

\* the scaled value fits the 64 bits of a UFix64
InRange(scaled) == ~Greater(scaled, MaxUint64)

\* a scaling that pads in front of the fractional digits
ScaleUpFront(integer, fractional) ==
    integer \o Zeros(Fix64Scale - Len(fractional)) \o fractional

\* integer * 10^8 + fractional * 10^(8 - scale), as digits
ScaleUp(integer, fractional) ==
    integer \o fractional \o Zeros(Fix64Scale - Len(fractional))

\* cadence.NewUFix64: an optional sign, integer digits, a point, one to
\* eight fractional digits; the value is the number of 10^-8 units
NewUFix64(s) ==
    LET parts == Split(s, <<>>)
    IN  IF Len(parts) # 2 THEN FixError("missing decimal point")
        ELSE LET negative == Len(parts[1]) > 0 /\ parts[1][1] = "-"
                 integer == IF negative THEN Tail(parts[1]) ELSE parts[1]
                 fractional == parts[2]
             IN  IF Len(integer) = 0 \/ ~AllDigits(integer)
                 THEN FixError("invalid integer part")
                 ELSE IF Len(fractional) = 0 \/ ~AllDigits(fractional)
                 THEN FixError("invalid fractional part")
                 ELSE IF negative
                 THEN FixError("invalid negative integer part")
                 ELSE IF Len(fractional) > Fix64Scale
                 THEN FixError("invalid scale")
                 ELSE IF ~InRange(StripZeros(ScaleUp(integer, fractional)))
                 THEN FixError("out of range")
                 ELSE [err |-> Nil,
                       value |-> StripZeros(ScaleUp(integer, fractional))]

\* strconv.FormatUint(value, 10): the digits without leading zeros
FormatUint(value) == StripZeros(value)

\* a conversion that only takes the point out of the string
UFix64ToUInt64StringDigits(UFix64) ==
    LET ufix == NewUFix64(UFix64)
    IN  IF ufix.err # Nil THEN [err |-> ufix.err, out |-> <<>>]
        ELSE [err |-> Nil, out |-> SelectSeq(UFix64, LAMBDA c : c # ".")]

(* UFix64ToUInt64String, lines 222-228 *)
UFix64ToUInt64String(UFix64) ==
    LET ufix == NewUFix64(UFix64)
    IN  IF ufix.err # Nil THEN [err |-> ufix.err, out |-> <<>>]
        ELSE [err |-> Nil, out |-> FormatUint(ufix.value)]

NoFix == [err |-> "pending", out |-> <<>>]

\* UFix64ToUInt64String is applied to the string and returns
ToMinorUnits ==
    /\ cout = NoFix
    /\ cout' = UFix64ToUInt64String(cin)
    /\ UNCHANGED <<cin, vars, gvars>>

InitFix ==
    /\ cin \in FixInputs
    /\ cout = NoFix
    /\ ValidatorUnused
    /\ GeneratorUnused

SpecFix == InitFix /\ [][ToMinorUnits]_allvars

(* Properties of the amount converter *)

FixDone == cout # NoFix

\* the text "integer.fractional" of digit strings
Decimal(integer, fractional) == integer \o <<".">> \o fractional

\* an unsigned decimal: digits, a point, digits
IsDecimal(s) ==
    /\ Len(Split(s, <<>>)) = 2
    /\ Len(Split(s, <<>>)[1]) > 0
    /\ Len(Split(s, <<>>)[2]) > 0
    /\ AllDigits(Split(s, <<>>)[1])
    /\ AllDigits(Split(s, <<>>)[2])

IntegerPart(s) == Split(s, <<>>)[1]

FractionalPart(s) == Split(s, <<>>)[2]

\* an unsigned decimal with exactly eight fractional digits
IsDecimal8(s) == IsDecimal(s) /\ Len(FractionalPart(s)) = Fix64Scale

\* the integer part is written without superfluous leading zeros
Canonical(s) == Len(IntegerPart(s)) = 1 \/ IntegerPart(s)[1] # "0"

\* a number without leading zeros
IsNumber(d) == Len(d) > 0 /\ AllDigits(d) /\ (Len(d) = 1 \/ d[1] # "0")

\* a number of 10^-8 units, widened to nine digits or more
Widen(d) == Zeros(Fix64Scale + 1 - Len(d)) \o d

\* a number of 10^-8 units written with eight fractional digits
Format8(d) ==
    Decimal(SubSeq(Widen(d), 1, Len(Widen(d)) - Fix64Scale),
            SubSeq(Widen(d), Len(Widen(d)) - Fix64Scale + 1, Len(Widen(d))))

One == Decimal(<<"1">>, Zeros(Fix64Scale))

Smallest == Decimal(<<"0">>, Zeros(Fix64Scale - 1) \o <<"1">>)

\* C18 as stated: for every unsigned decimal with exactly eight fractional
\* digits that is converted, writing the result with eight fractional
\* digits gives the input back.
C18_RoundTrip ==
    (FixDone /\ IsDecimal8(cin) /\ cout.err = Nil) =>
        /\ IsNumber(cout.out)
        /\ Format8(cout.out) = cin

\* C18 amended: the round trip holds for the inputs whose integer part has
\* no superfluous leading zeros; "1.00000000" gives "100000000" and
\* "0.00000001" gives "1".
C18_RoundTripCanonical ==
    /\ (FixDone /\ IsDecimal8(cin) /\ Canonical(cin) /\ cout.err = Nil) =>
           /\ IsNumber(cout.out)
           /\ Format8(cout.out) = cin
    /\ (FixDone /\ cin = One) =>
           cout = [err |-> Nil, out |-> <<"1">> \o Zeros(Fix64Scale)]
    /\ (FixDone /\ cin = Smallest) => cout = [err |-> Nil, out |-> <<"1">>]

C18_Witness ==
    /\ FixDone
    /\ cin = Smallest
    /\ cout.out = <<"1">>
    /\ Format8(cout.out) = cin

\* C19: every input that is not an unsigned decimal with exactly eight
\* fractional digits is rejected: the result is an error and the empty
\* string.
C19_RejectsMalformed ==
    (FixDone /\ ~IsDecimal8(cin)) =>
        /\ cout.err # Nil
        /\ cout.out = <<>>

\* the largest UFix64, 184467440737.09551615
MaxInteger == SubSeq(MaxUint64, 1, Len(MaxUint64) - Fix64Scale)

MaxFractional == SubSeq(MaxUint64, Len(MaxUint64) - Fix64Scale + 1, Len(MaxUint64))

\* the fractional digits filled up to eight
Filled(s) == FractionalPart(s) \o Zeros(Fix64Scale - Len(FractionalPart(s)))

\* the value of the decimal times 10^8 exceeds 2^64 - 1
Overflows(s) ==
    \/ Greater(StripZeros(IntegerPart(s)), MaxInteger)
    \/ /\ StripZeros(IntegerPart(s)) = MaxInteger
       /\ LexLess(MaxFractional, Filled(s))

\* C20: a result without error is exactly integer part * 10^8 + fractional
\* part, a number of at most 2^64 - 1 in base 10; a decimal whose scaled
\* value exceeds 2^64 - 1, or that has more than eight fractional digits,
\* is rejected and nothing is returned for it.
C20_ExactNoWrap ==
    FixDone =>
        /\ cout.err = Nil =>
               /\ IsDecimal(cin)
               /\ IsNumber(cout.out)
               /\ ~Greater(cout.out, MaxUint64)
               /\ IntegerPart(Format8(cout.out)) = StripZeros(IntegerPart(cin))
               /\ FractionalPart(Format8(cout.out)) = Filled(cin)
        /\ (IsDecimal(cin) /\ Len(FractionalPart(cin)) > Fix64Scale) =>
               cout.err # Nil /\ cout.out = <<>>
        /\ (IsDecimal(cin) /\ Len(FractionalPart(cin)) <= Fix64Scale
              /\ Overflows(cin)) =>
               cout.err # Nil /\ cout.out = <<>>

\* the largest value is converted
C20_Witness ==
    /\ FixDone
    /\ cin = Decimal(MaxInteger, MaxFractional)
    /\ cout = [err |-> Nil, out |-> MaxUint64]

\* the value after the largest is rejected
C20_WitnessOverflow ==
    /\ FixDone
    /\ cin = Decimal(MaxInteger, <<"0", "9", "5", "5", "1", "6", "1", "6">>)
    /\ cout.err # Nil
    /\ cout.out = <<>>

----------------------------------------------------------------------------
(* The staked-balance script (const getStakedBalance) run by the executor  *)
(* The script is its declarations and its return expression; the staking   *)
(* table is a list of nodes, each with its tokens in record and those of   *)
(* its delegators.                                                         *)

\* tokens in record of a node or delegator, and the vault balance: 0..MaxTokens
MaxTokens == 2
\* nodes of the staking table
MaxNodes == 2
\* delegators of a node
MaxDelegators == 1

\* sequences over S of length 0..n
RECURSIVE SeqsUpTo(_, _)
SeqsUpTo(S, n) ==
    IF n = 0 THEN {<<>>}
    ELSE SeqsUpTo(S, n - 1) \cup
         {Append(s, x) : s \in {t \in SeqsUpTo(S, n - 1) : Len(t) = n - 1}, x \in S}

\* FlowIDTableStaking.NodeInfo with the DelegatorInfo of its delegators
NodeInfos ==
    [tokens : 0..MaxTokens, delegators : SeqsUpTo(0..MaxTokens, MaxDelegators)]

RECURSIVE SumSeq(_)
SumSeq(s) == IF Len(s) = 0 THEN 0 ELSE Head(s) + SumSeq(Tail(s))

\* lines 44-56: the loop over allNodeIDs and the inner loop over delegators
RECURSIVE totalTokensLoop(_, _)
totalTokensLoop(nodes, totalTokens) ==
    IF Len(nodes) = 0 THEN totalTokens
    ELSE totalTokensLoop(Tail(nodes),
             totalTokens + Head(nodes).tokens + SumSeq(Head(nodes).delegators))

\* lines 30-54: the names main declares, with their values
Declared(input) ==
    [name \in {"account", "vaultRef", "vaultBalance", "allNodeIDs", "totalTokens"} |->
        CASE name = "vaultBalance" -> input.vaultBalance
          [] name = "totalTokens" -> totalTokensLoop(input.nodes, 0)
          [] OTHER -> 0]

\* line 58: return vaultBalance + stakedBalance
returnOperands == <<"vaultBalance", "stakedBalance">>

\* the executor checks the script before it runs it: a name that is not
\* declared is an error and the script returns no value
RunScript(input) ==
    IF \E i \in 1..Len(returnOperands) : returnOperands[i] \notin DOMAIN Declared(input)
    THEN [err |-> "cannot find variable in this scope", value |-> 0]
    ELSE [err |-> Nil,
          value |-> SumSeq([i \in 1..Len(returnOperands) |->
                              Declared(input)[returnOperands[i]]])]

NoScriptResult == [err |-> "pending", value |-> 0]

\* the executor runs the rendered script for the account
ExecuteStakedBalance ==
    /\ cout = NoScriptResult
    /\ cout' = RunScript(cin)
    /\ UNCHANGED <<cin, vars, gvars>>

\* the account's vault and the staking table the script reads
InitScript ==
    /\ cin \in [vaultBalance : 0..MaxTokens, nodes : SeqsUpTo(NodeInfos, MaxNodes)]
    /\ cout = NoScriptResult
    /\ ValidatorUnused
    /\ GeneratorUnused

SpecScript == InitScript /\ [][ExecuteStakedBalance]_allvars

\* the sum the script is meant to return
StakedTotal(nodes) ==
    SumSeq([i \in 1..Len(nodes) |-> nodes[i].tokens + SumSeq(nodes[i].delegators)])

\* C21: the staked-balance script returns vaultBalance + totalTokens, where
\* totalTokens is the sum over the nodes of the staking table of the node's
\* tokens in record and the tokens in record of each of its delegators.
C21_StakedBalanceTotal ==
    cout # NoScriptResult =>
        /\ cout.err = Nil
        /\ cout.value = cin.vaultBalance + StakedTotal(cin.nodes)

====
